---- MODULE Spec2Model ----
(***************************************************************************)
(* The plugin registry (PluginManager, src/src/liblary/loadPlugin.js) and  *)
(* the host that drives it (ApplicationServer, src/app.js): start-up,      *)
(* debounced hot reload, request dispatch over the Express route stack,    *)
(* the guard handler and the sliding-window rate limiter.                  *)
(***************************************************************************)
EXTENDS Integers, Sequences, FiniteSets, TLC

\* ------------------------------------------------------------------ bounds
TickMs == 1000      \* the clock advances in steps of this many milliseconds
MaxTicks == 2       \* the clock stops after this many steps
MaxInFlight == 1    \* exec invocations awaited at the same time

\* ------------------------------------------------------- program constants
DebounceMs == 1000          \* setTimeout(..., 1000) in debouncePluginReload
DefaultTimeout == 30000     \* plugin.timeout || 30000

Undefined == "undefined"    \* a property that is absent (JS undefined)
TOKEN == "secret"           \* process.env.TOKEN
ClientIp == "10.0.0.1"      \* req.ip of the client

\* The plugin directory as fs.readdirSync lists it.
Files == <<"a.js", "b.js">>
FileSet == {Files[i] : i \in 1..Len(Files)}

\* ------------------------------------------------------- parameter specs
\* An element of plugin.parameter: a bare name (typeof param === "string") or
\* an object { name, required, type, min, max, pattern }. required is "true",
\* "false" or absent; min and max are <<>> when absent.
BareParam(name) ==
  [form |-> "string", name |-> name, required |-> Undefined, type |-> Undefined,
   min |-> <<>>, max |-> <<>>, pattern |-> Undefined]
ObjParam(name, required, type, min, max, pattern) ==
  [form |-> "object", name |-> name, required |-> required, type |-> type,
   min |-> min, max |-> max, pattern |-> pattern]

\* --------------------------------------------------------- plugin sources
\* What require(pluginPath) yields: kind "object" is an exported object with
\* the listed properties, "notobject" an export that is no object, "throws" a
\* module whose evaluation throws, "missing" a file that is gone.
Source(kind, path, method, exec, name, authentication, parameter, rateLimit) ==
  [kind |-> kind, path |-> path, method |-> method, exec |-> exec, name |-> name,
   authentication |-> authentication, parameter |-> parameter,
   rateLimit |-> rateLimit, timeout |-> 5000, healthCheck |-> "none"]

Ping == Source("object", "/ping", "GET", TRUE, "ping", FALSE, <<>>,
               <<[limit |-> 2, window |-> 1000]>>)
Pong == Source("object", "/pong", "GET", TRUE, "ping", FALSE, <<>>,
               <<[limit |-> 1, window |-> 500]>>)
Bare == [Source("object", "/ping", Undefined, TRUE, Undefined, FALSE, <<>>, <<>>)
          EXCEPT !.timeout = 0]     \* no method, no name, no rateLimit, no timeout
Health == Source("object", "/health", "GET", TRUE, "health", FALSE, <<>>, <<>>)
Submit == Source("object", "/ping", "post", TRUE, "submit", TRUE, <<BareParam("q")>>,
                 <<[limit |-> 1, window |-> 1000]>>)
NoPath == Source("object", Undefined, "GET", TRUE, "ping", FALSE, <<>>, <<>>)
EmptyPath == Source("object", "", "GET", TRUE, "ping", FALSE, <<>>, <<>>)
NoExec == Source("object", "/ping", "GET", FALSE, "ping", FALSE, <<>>, <<>>)
BadMethod == Source("object", "/ping", "TRACE", TRUE, "ping", FALSE, <<>>, <<>>)
NoSlash == Source("object", "ping", "GET", TRUE, "ping", FALSE, <<>>, <<>>)
NotObject == Source("notobject", Undefined, Undefined, FALSE, Undefined, FALSE, <<>>, <<>>)
Throws == Source("throws", Undefined, Undefined, FALSE, Undefined, FALSE, <<>>, <<>>)
Missing == Source("missing", Undefined, Undefined, FALSE, Undefined, FALSE, <<>>, <<>>)

ValidSources == {Ping, Pong, Bare, Health, Submit}
Sources == ValidSources \cup
           {NoPath, EmptyPath, NoExec, BadMethod, NoSlash, NotObject, Throws, Missing}

\* Plugins that declare parameter specs: a form under each spelling of the
\* method, a counter with a required number, a finder with a bare name.
FormParams == <<ObjParam("q", "true", "string", <<2>>, <<3>>, "^a"),
                ObjParam("n", "false", "number", <<1>>, <<2>>, Undefined)>>
CountParams == <<ObjParam("n", Undefined, "number", <<>>, <<>>, Undefined),
                 BareParam("q")>>
FindParams == <<BareParam("q"), ObjParam("n", "false", "email", <<>>, <<>>, "^a")>>
Form(method) == Source("object", "/pong", method, TRUE, "form", FALSE, FormParams,
                       <<[limit |-> 1, window |-> 1000]>>)
Count == Source("object", "/pong", "POST", TRUE, "count", FALSE, CountParams, <<>>)
Find == Source("object", "/pong", "GET", TRUE, "find", FALSE, FindParams, <<>>)
FormMethods == {Undefined, "GET", "get", "POST", "PUT", "DELETE", "PATCH"}
GuardSources == {Submit, Count, Find} \cup {Form(m) : m \in FormMethods}

\* ------------------------------------------------------------ JS strings
\* String.prototype.toUpperCase / toLowerCase on the method names in use.
toUpperCase(s) ==
  CASE s = "get" -> "GET" [] s = "post" -> "POST" [] s = "put" -> "PUT"
    [] s = "delete" -> "DELETE" [] s = "patch" -> "PATCH" [] s = "trace" -> "TRACE"
    [] OTHER -> s

toLowerCase(s) ==
  CASE s = "GET" -> "get" [] s = "POST" -> "post" [] s = "PUT" -> "put"
    [] s = "DELETE" -> "delete" [] s = "PATCH" -> "patch" [] s = "TRACE" -> "trace"
    [] OTHER -> s

\* routePath.startsWith("/") on the paths in use.
startsWithSlash(p) == p \in {"/ping", "/pong", "/health", "/metrics", "/api/docs",
                             "/api/openapi.json", "/nope"}

\* file.replace(/\.js$/, "")
stripJs(file) == CASE file = "a.js" -> "a" [] file = "b.js" -> "b" [] OTHER -> file

allowedMethods == {"GET", "POST", "PUT", "DELETE", "PATCH"}

\* ---------------------------------------------------- manifest validator
\* The validator without its check of exec.
validatePlugin_skipsExec(plugin) ==
  IF plugin.kind # "object"
  THEN [valid |-> FALSE, errors |-> <<"Plugin must export an object">>]
  ELSE
    LET routePath == plugin.path
        method == IF plugin.method = Undefined THEN "GET" ELSE plugin.method
        e1 == IF routePath = Undefined \/ routePath = ""
              THEN <<"Plugin must have a valid 'path' property">> ELSE <<>>
        e3 == IF toUpperCase(method) \notin allowedMethods
              THEN <<"Method '" \o method \o "' is not supported">> ELSE <<>>
        e4 == IF routePath # Undefined /\ routePath # "" /\ ~startsWithSlash(routePath)
              THEN <<"Route path must start with '/'">> ELSE <<>>
        errors == e1 \o e3 \o e4
    IN [valid |-> errors = <<>>, errors |-> errors]

validatePlugin(plugin) ==
  IF plugin.kind # "object"
  THEN [valid |-> FALSE, errors |-> <<"Plugin must export an object">>]
  ELSE
    LET routePath == plugin.path
        method == IF plugin.method = Undefined THEN "GET" ELSE plugin.method
        e1 == IF routePath = Undefined \/ routePath = ""
              THEN <<"Plugin must have a valid 'path' property">> ELSE <<>>
        e2 == IF ~plugin.exec
              THEN <<"Plugin must have a valid 'exec' function">> ELSE <<>>
        e3 == IF toUpperCase(method) \notin allowedMethods
              THEN <<"Method '" \o method \o "' is not supported">> ELSE <<>>
        e4 == IF routePath # Undefined /\ routePath # "" /\ ~startsWithSlash(routePath)
              THEN <<"Route path must start with '/'">> ELSE <<>>
        errors == e1 \o e2 \o e3 \o e4
    IN [valid |-> errors = <<>>, errors |-> errors]

\* ------------------------------------------------------ the route stack
\* A layer of app._router.stack. A route layer carries route.path, the key of
\* route.methods and the handler mounted on it: owner is the file whose load
\* mounted it ("host" for the host's own routes) and plugin the descriptor the
\* guard handler closes over.
HostHandler == Source("host", Undefined, Undefined, TRUE, Undefined, FALSE, <<>>, <<>>)

Layer(kind, path, method, owner, plugin) ==
  [kind |-> kind, path |-> path, method |-> method, owner |-> owner, plugin |-> plugin]

MiddlewareLayer == Layer("middleware", Undefined, Undefined, "host", HostHandler)
NotFoundLayer == Layer("notFound", Undefined, Undefined, "host", HostHandler)
ErrorHandlerLayer == Layer("errorHandler", Undefined, Undefined, "host", HostHandler)
HostRoute(path) == Layer("route", path, "get", "host", HostHandler)

\* The registry: the router's stack with this.routes, this.plugins and
\* this.endpoints of the PluginManager.
EmptyMap == [f \in {} |-> Undefined]
EmptyRegistry == [stack |-> <<>>, routes |-> EmptyMap, plugins |-> EmptyMap,
                  endpoints |-> <<>>]

Without(map, key) == [k \in DOMAIN map \ {key} |-> map[k]]
With(map, key, val) == [k \in DOMAIN map \cup {key} |-> IF k = key THEN val ELSE map[k]]

\* unregisterPlugin leaving the endpoint of the old route in this.endpoints.
unregisterPlugin_keepsEndpoint(reg, file) ==
  IF file \in DOMAIN reg.routes
  THEN LET oldRoute == reg.routes[file]
           KeepLayer(layer) == ~(/\ layer.kind = "route"
                                 /\ layer.path = oldRoute.routePath
                                 /\ layer.method = toLowerCase(oldRoute.method))
       IN [stack |-> SelectSeq(reg.stack, KeepLayer),
           routes |-> Without(reg.routes, file),
           plugins |-> Without(reg.plugins, file),
           endpoints |-> reg.endpoints]
  ELSE reg

\* unregisterPlugin clearing the endpoint list when the file has no entry.
unregisterPlugin_clearsWhenAbsent(reg, file) ==
  IF file \in DOMAIN reg.routes
  THEN LET oldRoute == reg.routes[file]
           KeepLayer(layer) == ~(/\ layer.kind = "route"
                                 /\ layer.path = oldRoute.routePath
                                 /\ layer.method = toLowerCase(oldRoute.method))
           KeepEndpoint(e) == ~(e.path = oldRoute.routePath /\ e.method = oldRoute.method)
       IN [stack |-> SelectSeq(reg.stack, KeepLayer),
           routes |-> Without(reg.routes, file),
           plugins |-> Without(reg.plugins, file),
           endpoints |-> SelectSeq(reg.endpoints, KeepEndpoint)]
  ELSE [reg EXCEPT !.endpoints = <<>>]

unregisterPlugin(reg, file) ==
  IF file \in DOMAIN reg.routes
  THEN LET oldRoute == reg.routes[file]
           KeepLayer(layer) == ~(/\ layer.kind = "route"
                                 /\ layer.path = oldRoute.routePath
                                 /\ layer.method = toLowerCase(oldRoute.method))
           KeepEndpoint(e) == ~(e.path = oldRoute.routePath /\ e.method = oldRoute.method)
       IN [stack |-> SelectSeq(reg.stack, KeepLayer),
           routes |-> Without(reg.routes, file),
           plugins |-> Without(reg.plugins, file),
           endpoints |-> SelectSeq(reg.endpoints, KeepEndpoint)]
  ELSE reg

\* plugin.method?.toUpperCase() || "GET"
methodOf(plugin) ==
  IF plugin.method = Undefined \/ plugin.method = "" THEN "GET"
  ELSE toUpperCase(plugin.method)

\* app.get / app.post / ... append one layer; any other method throws.
registerRoute(reg, plugin, file) ==
  LET method == methodOf(plugin)
      routePath == plugin.path
  IN IF method \in allowedMethods
     THEN [thrown |-> FALSE,
           reg |-> [reg EXCEPT
                      !.stack = Append(@, Layer("route", routePath, toLowerCase(method),
                                                file, plugin)),
                      !.routes = With(@, file, [routePath |-> routePath,
                                                method |-> method])]]
     ELSE [thrown |-> TRUE, reg |-> reg]

endpointOf(plugin, file) ==
  [path |-> plugin.path,
   name |-> IF plugin.name = Undefined \/ plugin.name = "" THEN stripJs(file)
            ELSE plugin.name,
   description |-> "",
   authentication |-> plugin.authentication,
   method |-> methodOf(plugin),
   tags |-> <<>>,
   parameter |-> plugin.parameter,
   version |-> "1.0.0",
   deprecated |-> FALSE,
   rateLimit |-> plugin.rateLimit,
   timeout |-> IF plugin.timeout = 0 THEN DefaultTimeout ELSE plugin.timeout]

updateEndpointsRegistry(reg, plugin, file) ==
  [reg EXCEPT !.endpoints = Append(@, endpointOf(plugin, file))]

\* loadPlugin removing the old route before it reads and validates the file.
loadPlugin_unregistersFirst(reg, file, plugin) ==
  LET cleared == unregisterPlugin(reg, file) IN
  IF plugin.kind = "missing" THEN [result |-> "throws", reg |-> cleared]
  ELSE IF plugin.kind = "throws" THEN [result |-> "false", reg |-> cleared]
  ELSE IF ~validatePlugin(plugin).valid THEN [result |-> "false", reg |-> cleared]
  ELSE LET mounted == registerRoute(cleared, plugin, file)
       IN IF mounted.thrown
          THEN [result |-> "false", reg |-> cleared]
          ELSE [result |-> "true",
                reg |-> updateEndpointsRegistry(
                          [mounted.reg EXCEPT !.plugins = With(@, file, plugin)],
                          plugin, file)]

\* loadPlugin yielding after unregisterPlugin: the registry other task
\* turns see when the turn ends between the removal and the mounting.
loadPlugin_yieldsAfterUnregister(reg, file, plugin) ==
  IF plugin.kind = "missing" THEN [result |-> "throws", reg |-> reg]
  ELSE IF plugin.kind = "throws" THEN [result |-> "false", reg |-> reg]
  ELSE IF ~validatePlugin(plugin).valid THEN [result |-> "false", reg |-> reg]
  ELSE [result |-> "true", reg |-> unregisterPlugin(reg, file)]

\* loadPlugin(app, file, pluginsDir) with plugin the current content of the
\* file: result "true" / "false" as returned, "throws" when it raises.
loadPlugin(reg, file, plugin) ==
  IF plugin.kind = "missing" THEN [result |-> "throws", reg |-> reg]
  ELSE IF plugin.kind = "throws" THEN [result |-> "false", reg |-> reg]
  ELSE IF ~validatePlugin(plugin).valid THEN [result |-> "false", reg |-> reg]
  ELSE LET cleared == unregisterPlugin(reg, file)
           mounted == registerRoute(cleared, plugin, file)
       IN IF mounted.thrown
          THEN [result |-> "false", reg |-> cleared]
          ELSE [result |-> "true",
                reg |-> updateEndpointsRegistry(
                          [mounted.reg EXCEPT !.plugins = With(@, file, plugin)],
                          plugin, file)]

reloadPlugin(reg, file, plugin) == loadPlugin(reg, file, plugin)

\* loadAllPlugins: every listed file in directory order, failures counted.
RECURSIVE loadAllFrom(_, _, _)
loadAllFrom(acc, i, disk) ==
  IF i > Len(Files) THEN acc
  ELSE IF disk[Files[i]].kind = "missing" THEN loadAllFrom(acc, i + 1, disk)
  ELSE LET r == loadPlugin(acc.reg, Files[i], disk[Files[i]])
       IN loadAllFrom([reg |-> r.reg,
                       loaded |-> acc.loaded + (IF r.result = "true" THEN 1 ELSE 0),
                       failed |-> acc.failed + (IF r.result = "true" THEN 0 ELSE 1)],
                      i + 1, disk)

\* loadAllPlugins passing over the first file of the listing.
loadAllPlugins_skipsFirst(reg, dirExists, disk) ==
  IF ~dirExists THEN [reg |-> reg, loaded |-> 0, failed |-> 0]
  ELSE loadAllFrom([reg |-> reg, loaded |-> 0, failed |-> 0], 2, disk)

loadAllPlugins(reg, dirExists, disk) ==
  IF ~dirExists THEN [reg |-> reg, loaded |-> 0, failed |-> 0]
  ELSE loadAllFrom([reg |-> reg, loaded |-> 0, failed |-> 0], 1, disk)

\* ------------------------------------------------ listing, stats, health
\* The filters of getEndpoints; a property that is not given is Undefined.
Filters(method, authenticated, tag, deprecated, sortBy, sortOrder) ==
  [method |-> method, authenticated |-> authenticated, tag |-> tag,
   deprecated |-> deprecated, sortBy |-> sortBy, sortOrder |-> sortOrder]
NoFilters == Filters(Undefined, Undefined, Undefined, Undefined, Undefined, Undefined)

\* String.prototype.localeCompare on the paths and names in use: the place
\* of a string in the collation order.
Collation == <<"/health", "/ping", "/pong", "a", "b", "health", "ping", "submit">>
localeRank(str) == CHOOSE i \in 1..Len(Collation) : Collation[i] = str

\* a[sortBy] of an endpoint; the other properties are no strings, so that
\* localeCompare is no function of them.
sortable(sortBy) == sortBy \in {"path", "name"}
sortKey(e, sortBy) == IF sortBy = "path" THEN e.path ELSE e.name

\* The comparator of filtered.sort is at most 0: a does not go behind b.
notAfter(a, b, filters) ==
  LET aVal == localeRank(sortKey(a, filters.sortBy))
      bVal == localeRank(sortKey(b, filters.sortBy))
  IN IF filters.sortOrder = "desc" THEN bVal <= aVal ELSE aVal <= bVal

\* Array.prototype.sort (stable): element by element into its place.
RECURSIVE insertSorted(_, _, _)
insertSorted(sorted, e, filters) ==
  IF sorted = <<>> THEN <<e>>
  ELSE LET lastOne == sorted[Len(sorted)] IN
       IF notAfter(lastOne, e, filters) THEN Append(sorted, e)
       ELSE Append(insertSorted(SubSeq(sorted, 1, Len(sorted) - 1), e, filters), lastOne)

RECURSIVE sortBy(_, _, _)
sortBy(list, i, filters) ==
  IF i = 0 THEN <<>>
  ELSE insertSorted(sortBy(list, i - 1, filters), list[i], filters)

\* The filter steps of getEndpoints on a copy of the stored list.
filterEndpoints(eps, filters) ==
  LET ByMethod(e) == filters.method = Undefined \/ e.method = toUpperCase(filters.method)
      ByAuth(e) == \/ filters.authenticated = Undefined
                   \/ e.authentication = (filters.authenticated = "true")
      ByTag(e) == filters.tag = Undefined \/ \E i \in 1..Len(e.tags) : e.tags[i] = filters.tag
      ByDeprecated(e) == \/ filters.deprecated = Undefined
                         \/ e.deprecated = (filters.deprecated = "true")
  IN SelectSeq(SelectSeq(SelectSeq(SelectSeq(eps, ByMethod), ByAuth), ByTag),
               ByDeprecated)

\* getEndpoints returning this.endpoints itself when no filter is given.
getEndpoints_returnsRegistry(eps, filters) ==
  LET filtered == filterEndpoints(eps, filters)
      raises == /\ filters.sortBy # Undefined /\ ~sortable(filters.sortBy)
                /\ Len(filtered) >= 2
  IN [array |-> IF filters = NoFilters THEN "shared" ELSE "own",
      list |-> IF raises THEN <<>>
               ELSE IF filters.sortBy = Undefined THEN filtered
               ELSE sortBy(filtered, Len(filtered), filters),
      raised |-> raises,
      endpoints |-> eps]

\* getEndpoints sorting the stored list instead of a copy of it.
getEndpoints_sortsInPlace(eps, filters) ==
  LET filtered == filterEndpoints(eps, filters)
      raises == /\ filters.sortBy # Undefined /\ ~sortable(filters.sortBy)
                /\ Len(filtered) >= 2
  IN [array |-> "own",
      list |-> IF raises THEN <<>>
               ELSE IF filters.sortBy = Undefined THEN filtered
               ELSE sortBy(filtered, Len(filtered), filters),
      raised |-> raises,
      endpoints |-> IF filters.sortBy # Undefined /\ sortable(filters.sortBy)
                    THEN sortBy(eps, Len(eps), filters) ELSE eps]

\* getEndpoints(filters) over this.endpoints: the array returned (a new one:
\* "own"), whether the call raised (localeCompare of a value that is no
\* string), and this.endpoints after the call.
getEndpoints(eps, filters) ==
  LET filtered == filterEndpoints(eps, filters)
      raises == /\ filters.sortBy # Undefined /\ ~sortable(filters.sortBy)
                /\ Len(filtered) >= 2
  IN [array |-> "own",
      list |-> IF raises THEN <<>>
               ELSE IF filters.sortBy = Undefined THEN filtered
               ELSE sortBy(filtered, Len(filtered), filters),
      raised |-> raises,
      endpoints |-> eps]

\* getMethodDistribution(): endpoints counted by method.
getMethodDistribution(eps) ==
  [m \in {eps[i].method : i \in 1..Len(eps)} |->
     Cardinality({i \in 1..Len(eps) : eps[i].method = m})]

\* getStats counting the route entries for totalPlugins.
getStats_countsRoutes(reg) ==
  [totalPlugins |-> Cardinality(DOMAIN reg.routes) + 1,
   totalEndpoints |-> Len(reg.endpoints),
   methodDistribution |-> getMethodDistribution(reg.endpoints),
   authRequiredCount |->
     Cardinality({i \in 1..Len(reg.endpoints) : reg.endpoints[i].authentication}),
   deprecatedCount |->
     Cardinality({i \in 1..Len(reg.endpoints) : reg.endpoints[i].deprecated})]

getStats(reg) ==
  [totalPlugins |-> Cardinality(DOMAIN reg.plugins),
   totalEndpoints |-> Len(reg.endpoints),
   methodDistribution |-> getMethodDistribution(reg.endpoints),
   authRequiredCount |->
     Cardinality({i \in 1..Len(reg.endpoints) : reg.endpoints[i].authentication}),
   deprecatedCount |->
     Cardinality({i \in 1..Len(reg.endpoints) : reg.endpoints[i].deprecated})]

\* The status a plugin contributes to healthCheck(): what its own
\* healthCheck returns, the default when it has none, the error status of
\* the catch when it raises (an Error with a message).
OwnStatus == [status |-> "ok", message |-> "own"]
DefaultStatus == [status |-> "ok", message |-> "No health check defined"]
ErrorStatus == [status |-> "error", message |-> "down"]

\* The files of this.plugins in the order the loop walks them (the Map's
\* insertion order in the code; no status depends on the order).
mapOrder(pluginMap) == SelectSeq(Files, LAMBDA f : f \in DOMAIN pluginMap)

\* healthCheck without the try/catch around a plugin's health check.
RECURSIVE healthCheckFrom_noCatch(_, _, _, _)
healthCheckFrom_noCatch(pluginMap, order, i, acc) ==
  IF i > Len(order) THEN acc
  ELSE LET file == order[i]
           hc == pluginMap[file].healthCheck
       IN IF hc = "raises" THEN [acc EXCEPT !.raised = TRUE]
          ELSE healthCheckFrom_noCatch(pluginMap, order, i + 1,
                 [acc EXCEPT !.results = With(@, file, IF hc = "ok" THEN OwnStatus
                                                       ELSE DefaultStatus)])

\* The loop of healthCheck() from the i-th file on.
RECURSIVE healthCheckFrom(_, _, _, _)
healthCheckFrom(pluginMap, order, i, acc) ==
  IF i > Len(order) THEN acc
  ELSE LET file == order[i]
           hc == pluginMap[file].healthCheck
           status == CASE hc = "ok" -> OwnStatus
                       [] hc = "raises" -> ErrorStatus
                       [] OTHER -> DefaultStatus
       IN healthCheckFrom(pluginMap, order, i + 1,
                          [acc EXCEPT !.results = With(@, file, status)])

\* healthCheck whose loop has no try/catch.
healthCheck_noCatch(pluginMap) ==
  healthCheckFrom_noCatch(pluginMap, mapOrder(pluginMap), 1,
                          [results |-> EmptyMap, raised |-> FALSE])

healthCheck(pluginMap) ==
  healthCheckFrom(pluginMap, mapOrder(pluginMap), 1,
                  [results |-> EmptyMap, raised |-> FALSE])

\* ------------------------------------------------------------- requests
\* A value of req.query or req.body: its JS type and its text.
Str(s) == [t |-> "string", s |-> s]
Num(s) == [t |-> "number", s |-> s]
Bool(s) == [t |-> "boolean", s |-> s]
Null == [t |-> "null", s |-> "null"]

NoParams == [n \in {} |-> Null]
Request(method, path, authorization, query, body, exec) ==
  [ip |-> ClientIp, method |-> method, path |-> path, authorization |-> authorization,
   query |-> query, body |-> body, exec |-> exec]

\* The Authorization header as header.split(" ") yields it; <<>> is no header.
AuthHeaders == {<<>>, <<"Basic", "secret">>, <<"Bearer", "">>, <<"Bearer", "wrong">>,
                <<"Bearer", "secret">>}
ParamSets == {NoParams, [n \in {"q"} |-> Str("x")]}
\* exec either sends its 200 response or throws ("respondsThenThrows": it
\* throws after it sent; "pending": it returns a promise that is not settled
\* yet, having sent nothing).
ExecOutcomes == {"responds", "throws"}
\* The requests served: every (method, path) with no header and no parameter,
\* an exec that throws, and the header and body variants for POST /ping.
Requests ==
  {Request(m, p, <<>>, NoParams, NoParams, "responds") :
     m \in {"GET", "POST"}, p \in {"/ping", "/pong", "/health", "/nope"}}
  \cup {Request("GET", p, <<>>, NoParams, NoParams, "throws") : p \in {"/ping", "/pong"}}
  \cup {Request("POST", "/ping", h, NoParams, b, "responds") :
          h \in AuthHeaders, b \in ParamSets}

\* validateAuthentication answering a wrong token like a missing one.
\* process.env.TOKEN: <<>> when the variable is not set, else its value.
VARIABLE secret

\* validateAuthentication without the test of an empty token.
validateAuthentication_skipsEmptyToken(req) ==
  LET authHeader == req.authorization IN
  IF authHeader = <<>>
  THEN [valid |-> FALSE, status |-> 401, message |-> "Authorization header is required"]
  ELSE IF ~(Len(authHeader) >= 2 /\ authHeader[1] = "Bearer")
  THEN [valid |-> FALSE, status |-> 401, message |-> "Invalid authorization format"]
  ELSE IF <<authHeader[2]>> # secret
  THEN [valid |-> FALSE, status |-> 403, message |-> "Invalid or expired token"]
  ELSE [valid |-> TRUE, status |-> 200, message |-> ""]

validateAuthentication_wrongIs401(req) ==
  LET authHeader == req.authorization IN
  IF authHeader = <<>>
  THEN [valid |-> FALSE, status |-> 401, message |-> "Authorization header is required"]
  ELSE IF ~(Len(authHeader) >= 2 /\ authHeader[1] = "Bearer")
  THEN [valid |-> FALSE, status |-> 401, message |-> "Invalid authorization format"]
  ELSE IF <<authHeader[2]>> # secret
  THEN [valid |-> FALSE, status |-> 401, message |-> "Token is required"]
  ELSE [valid |-> TRUE, status |-> 200, message |-> ""]

validateAuthentication(req) ==
  LET authHeader == req.authorization IN
  IF authHeader = <<>>
  THEN [valid |-> FALSE, status |-> 401, message |-> "Authorization header is required"]
  ELSE IF ~(Len(authHeader) >= 2 /\ authHeader[1] = "Bearer")
  THEN [valid |-> FALSE, status |-> 401, message |-> "Invalid authorization format"]
  ELSE IF authHeader[2] = ""
  THEN [valid |-> FALSE, status |-> 401, message |-> "Token is required"]
  ELSE IF <<authHeader[2]>> # secret
  THEN [valid |-> FALSE, status |-> 403, message |-> "Invalid or expired token"]
  ELSE [valid |-> TRUE, status |-> 200, message |-> ""]

\* source[param] is truthy: present and none of "", 0, false, null.
truthy(source, param) ==
  /\ param \in DOMAIN source
  /\ LET v == source[param] IN
     CASE v.t = "string" -> v.s # ""
       [] v.t = "number" -> v.s # "0"
       [] v.t = "boolean" -> v.s = "true"
       [] OTHER -> FALSE

\* !isNaN(Number(value)) on the values in use.
isNumeric(value) ==
  CASE value.t = "string" -> value.s \in {"", "0", "7"}
    [] OTHER -> TRUE

\* The regular expressions of validateType and of the patterns in use,
\* tested against String(value).
matches(regex, value) ==
  CASE regex = "email" -> value.t = "string" /\ value.s \in {"a@b.c"}
    [] regex = "url" -> value.t = "string" /\ value.s \in {"http://a"}
    [] regex = "^a" -> value.t = "string" /\ value.s \in {"ab", "a@b.c"}
    [] OTHER -> FALSE

validateType(value, type) ==
  CASE type = "string" -> value.t = "string"
    [] type = "number" -> isNumeric(value)
    [] type = "boolean" -> value.t = "boolean" \/ (value.t = "string" /\ value.s \in {"true", "false"})
    [] type = "email" -> matches("email", value)
    [] type = "url" -> matches("url", value)
    [] OTHER -> TRUE

\* One entry of errors: the parameter it names and the constraint reported
\* ("required": is required; "type": must be of type; "min": must be at
\* least; "max": must be at most; "pattern": format is invalid).
Detail(name, constraint) == [param |-> name, constraint |-> constraint]

\* The forEach callback type-checking a parameter that is absent.
checkParam_checksAbsent(param, source) ==
  LET name == param.name
      required == param.required # "false"
  IN IF param.form = "string" \/ (required /\ ~truthy(source, name))
     THEN [errors |-> IF ~truthy(source, name) THEN <<Detail(name, "required")>>
                      ELSE <<>>,
           thrown |-> FALSE]
     ELSE IF name \notin DOMAIN source
     THEN [errors |-> IF param.type # Undefined THEN <<Detail(name, "type")>> ELSE <<>>,
           thrown |-> FALSE]
     ELSE
       LET value == source[name]
           hasLength == value.t = "string"
           eType == IF param.type # Undefined /\ ~validateType(value, param.type)
                    THEN <<Detail(name, "type")>> ELSE <<>>
           eMin == IF param.min # <<>> /\ hasLength /\ Len(value.s) < param.min[1]
                   THEN <<Detail(name, "min")>> ELSE <<>>
           eMax == IF param.max # <<>> /\ hasLength /\ Len(value.s) > param.max[1]
                   THEN <<Detail(name, "max")>> ELSE <<>>
           ePattern == IF param.pattern # Undefined /\ ~matches(param.pattern, value)
                       THEN <<Detail(name, "pattern")>> ELSE <<>>
       IN IF value.t = "null" /\ (param.min # <<>> \/ param.max # <<>>)
          THEN [errors |-> eType, thrown |-> TRUE]
          ELSE [errors |-> eType \o eMin \o eMax \o ePattern, thrown |-> FALSE]

\* The forEach callback on one element of plugin.parameter: the errors it
\* pushes, and whether it throws (value.length of null).
checkParam(param, source) ==
  LET name == param.name
      required == param.required # "false"
  IN IF param.form = "string"
     THEN [errors |-> IF ~truthy(source, name) THEN <<Detail(name, "required")>>
                      ELSE <<>>,
           thrown |-> FALSE]
     ELSE IF required /\ ~truthy(source, name)
     THEN [errors |-> <<Detail(name, "required")>>, thrown |-> FALSE]
     ELSE IF name \notin DOMAIN source
     THEN [errors |-> <<>>, thrown |-> FALSE]
     ELSE
       LET value == source[name]
           hasLength == value.t = "string"
           eType == IF param.type # Undefined /\ ~validateType(value, param.type)
                    THEN <<Detail(name, "type")>> ELSE <<>>
           eMin == IF param.min # <<>> /\ hasLength /\ Len(value.s) < param.min[1]
                   THEN <<Detail(name, "min")>> ELSE <<>>
           eMax == IF param.max # <<>> /\ hasLength /\ Len(value.s) > param.max[1]
                   THEN <<Detail(name, "max")>> ELSE <<>>
           ePattern == IF param.pattern # Undefined /\ ~matches(param.pattern, value)
                       THEN <<Detail(name, "pattern")>> ELSE <<>>
       IN IF value.t = "null" /\ (param.min # <<>> \/ param.max # <<>>)
          THEN [errors |-> eType, thrown |-> TRUE]
          ELSE [errors |-> eType \o eMin \o eMax \o ePattern, thrown |-> FALSE]

RECURSIVE paramErrors(_, _, _)
paramErrors(parameter, i, source) ==
  IF i > Len(parameter) THEN [errors |-> <<>>, thrown |-> FALSE]
  ELSE LET this == checkParam(parameter[i], source) IN
       IF this.thrown THEN this
       ELSE LET rest == paramErrors(parameter, i + 1, source) IN
            [errors |-> this.errors \o rest.errors, thrown |-> rest.thrown]

\* The object parameters are read from.
sourceOf(plugin, req) ==
  IF plugin.method # Undefined /\ toUpperCase(plugin.method) = "GET"
  THEN req.query ELSE req.body

validateParameters(plugin, req) ==
  IF Len(plugin.parameter) = 0 THEN [valid |-> TRUE, errors |-> <<>>, thrown |-> FALSE]
  ELSE LET result == paramErrors(plugin.parameter, 1, sourceOf(plugin, req))
       IN [valid |-> result.errors = <<>>, errors |-> result.errors,
           thrown |-> result.thrown]

\* ---------------------------------------------------------- rate limiter
RECURSIVE minOf(_)
\* Math.min() of no argument: Infinity, which the arithmetic after it keeps
\* (window - (now - Infinity) and Math.ceil of it are Infinity again). Here
\* a number above every one the model computes.
Infinity == 1000000000

minOf(seq) ==
  IF Len(seq) = 1 THEN seq[1]
  ELSE LET m == minOf(Tail(seq)) IN IF seq[1] < m THEN seq[1] ELSE m

\* Math.ceil(x / 1000)
ceilSeconds(x) == -((-x) \div 1000)

rateKey(ip, plugin) == ip \o "-" \o plugin.name

\* checkRateLimit recording the timestamp before it compares with the limit.
checkRateLimit_recordsDenied(store, req, plugin, t) ==
  LET key == rateKey(req.ip, plugin)
      limit == plugin.rateLimit[1].limit
      window == plugin.rateLimit[1].window
      requests == IF key \in DOMAIN store THEN store[key] ELSE <<>>
      InWindow(time) == t - time < window
      validRequests == SelectSeq(requests, InWindow)
      recorded == With(store, key, Append(validRequests, t))
  IN IF Len(validRequests) >= limit
     THEN [allowed |-> FALSE,
           retryAfter |-> IF validRequests = <<>> THEN Infinity
                          ELSE ceilSeconds(window - (t - minOf(validRequests))),
           store |-> recorded]
     ELSE [allowed |-> TRUE, retryAfter |-> 0, store |-> recorded]

\* checkRateLimit(req, plugin) at time t over this.rateLimitStore (a key that
\* is absent reads as the empty sequence): the verdict and the store after it.
checkRateLimit(store, req, plugin, t) ==
  LET key == rateKey(req.ip, plugin)
      limit == plugin.rateLimit[1].limit
      window == plugin.rateLimit[1].window
      requests == IF key \in DOMAIN store THEN store[key] ELSE <<>>
      InWindow(time) == t - time < window
      validRequests == SelectSeq(requests, InWindow)
  IN IF Len(validRequests) >= limit
     THEN [allowed |-> FALSE,
           retryAfter |-> IF validRequests = <<>> THEN Infinity
                          ELSE ceilSeconds(window - (t - minOf(validRequests))),
           store |-> store]
     ELSE [allowed |-> TRUE, retryAfter |-> 0,
           store |-> With(store, key, Append(validRequests, t))]

\* ---------------------------------------------------------- guard handler
\* A response sent: its status, who sent it (by), the details of a 400,
\* whether it carries an errorId, what the limiter did and whether exec ran.
Response(status, by, plugin, limiter, retryAfter, execCalled) ==
  [status |-> status, by |-> by, plugin |-> plugin, limiter |-> limiter,
   retryAfter |-> retryAfter, execCalled |-> execCalled, details |-> <<>>,
   errorId |-> FALSE]

\* The 500 of the catch block.
InternalError(by, plugin, limiter, execCalled) ==
  [Response(500, by, plugin, limiter, 0, execCalled) EXCEPT !.errorId = TRUE]

\* Nothing sent yet: exec was invoked, returned a promise that is not settled
\* and the handler awaits Promise.race([pluginPromise, timeoutPromise]).
Awaiting(by, plugin, limiter) == Response(0, by, plugin, limiter, 0, TRUE)

\* The handler consulting the rate limiter before authentication and
\* parameter validation.
withValidation_limitsFirst(plugin, owner, req, store, t) ==
  LET authResult == validateAuthentication(req)
      validationResult == validateParameters(plugin, req)
      rateLimitResult == checkRateLimit(store, req, plugin, t)
      limiter == IF plugin.rateLimit # <<>> THEN "allowed" ELSE "unlimited"
      after == IF plugin.rateLimit # <<>> THEN rateLimitResult.store ELSE store
  IN IF plugin.rateLimit # <<>> /\ ~rateLimitResult.allowed
     THEN [res |-> Response(429, owner, plugin, "denied", rateLimitResult.retryAfter,
                            FALSE),
           store |-> after]
     ELSE IF plugin.authentication /\ ~authResult.valid
     THEN [res |-> Response(authResult.status, owner, plugin, "skipped", 0, FALSE),
           store |-> after]
     ELSE IF validationResult.thrown
     THEN [res |-> InternalError(owner, plugin, "skipped", FALSE), store |-> after]
     ELSE IF ~validationResult.valid
     THEN [res |-> [Response(400, owner, plugin, "skipped", 0, FALSE)
                      EXCEPT !.details = validationResult.errors],
           store |-> after]
     ELSE [res |-> IF req.exec = "responds"
                   THEN Response(200, owner, plugin, limiter, 0, TRUE)
                   ELSE InternalError(owner, plugin, limiter, TRUE),
           store |-> after]

\* The handler withValidation(plugin) on one request: the response it sends
\* and the rate-limit store it leaves.
withValidation(plugin, owner, req, store, t) ==
  LET authResult == validateAuthentication(req)
      validationResult == validateParameters(plugin, req)
      rateLimitResult == checkRateLimit(store, req, plugin, t)
      limiter == IF plugin.rateLimit # <<>> THEN "allowed" ELSE "unlimited"
  IN IF plugin.authentication /\ ~authResult.valid
     THEN [res |-> Response(authResult.status, owner, plugin, "skipped", 0, FALSE),
           store |-> store]
     ELSE IF validationResult.thrown
     THEN [res |-> InternalError(owner, plugin, "skipped", FALSE), store |-> store]
     ELSE IF ~validationResult.valid
     THEN [res |-> [Response(400, owner, plugin, "skipped", 0, FALSE)
                      EXCEPT !.details = validationResult.errors],
           store |-> store]
     ELSE IF plugin.rateLimit # <<>> /\ ~rateLimitResult.allowed
     THEN [res |-> Response(429, owner, plugin, "denied", rateLimitResult.retryAfter,
                            FALSE),
           store |-> rateLimitResult.store]
     ELSE [res |-> CASE req.exec \in {"responds", "respondsThenThrows"} ->
                          Response(200, owner, plugin, limiter, 0, TRUE)
                     [] req.exec = "throws" ->
                          InternalError(owner, plugin, limiter, TRUE)
                     [] OTHER -> Awaiting(owner, plugin, limiter),
           store |-> IF plugin.rateLimit # <<>> THEN rateLimitResult.store ELSE store]

\* ------------------------------------------------------- router dispatch
\* Router.handle walks the stack in order: middleware passes the request on,
\* a route layer takes it when path and method match, the catch-all answers
\* 404, and the error handler is skipped when no error is pending.
handles(layer, req) ==
  \/ layer.kind = "notFound"
  \/ /\ layer.kind = "route"
     /\ layer.path = req.path
     /\ layer.method = toLowerCase(req.method)

RECURSIVE firstHandling(_, _, _)
firstHandling(stk, i, req) ==
  IF i > Len(stk) THEN 0
  ELSE IF handles(stk[i], req) THEN i ELSE firstHandling(stk, i + 1, req)

dispatch(stk, req, store, t) ==
  LET i == firstHandling(stk, 1, req) IN
  IF i = 0
  THEN [res |-> Response(404, "final", HostHandler, "skipped", 0, FALSE), store |-> store]
  ELSE IF stk[i].kind = "notFound"
  THEN [res |-> Response(404, "notFound", HostHandler, "skipped", 0, FALSE),
        store |-> store]
  ELSE IF stk[i].owner = "host"
  THEN [res |-> Response(200, "host", HostHandler, "skipped", 0, FALSE), store |-> store]
  ELSE withValidation(stk[i].plugin, stk[i].owner, req, store, t)

\* ---------------------------------------------------------------- state
VARIABLES
  phase,                \* "constructed", then "running" once initialize() is done
  stack,                \* app._router.stack
  routes,               \* PluginManager.routes: file -> {routePath, method}
  plugins,              \* PluginManager.plugins: file -> descriptor
  endpoints,            \* PluginManager.endpoints
  rateLimitStore,       \* PluginManager.rateLimitStore: key -> timestamps
  pluginReloadTimeout,  \* ApplicationServer.pluginReloadTimeout: <<>> or one timer
  watching,             \* pluginWatchers holds the fs.watch watcher
  now,                  \* Date.now(), relative to start-up
  last,                 \* the step just taken and what it returned
  pendingChange,        \* file -> time of its last change event not yet reloaded
  prevRoute,            \* file -> the route its last successful load replaced
  admitted,             \* file -> times at which its handler's requests were admitted
  inflight,             \* the requests whose exec the guard handler awaited
  held                  \* what the last getEndpoints, getStats or healthCheck returned

vars == <<phase, stack, routes, plugins, endpoints, rateLimitStore, pluginReloadTimeout,
          watching, now, last, pendingChange, prevRoute, admitted, inflight, held,
          secret>>

registry == [stack |-> stack, routes |-> routes, plugins |-> plugins,
             endpoints |-> endpoints]

NoRequest == Request("", "", <<>>, NoParams, NoParams, "responds")
NoResponse == Response(0, "", HostHandler, "skipped", 0, FALSE)
Step(op, file, src, result, req, res) ==
  [op |-> op, file |-> file, src |-> src, result |-> result, req |-> req, res |-> res,
   startup |-> <<>>, changed |-> file]

\* The watcher is recursive: besides the files of the plugins directory it
\* reports those of its subdirectories, with their path from the directory.
SubFile == "sub/" \o Files[1]
WatchedFiles == FileSet \cup {SubFile}

\* path.basename(filePath), the file reloadPlugin is called with.
basename(filename) == IF filename = SubFile THEN Files[1] ELSE filename

\* What the file in the subdirectory holds: descriptors of its own, which no
\* file of the plugins directory holds.
SubSources == {[Ping EXCEPT !.name = "sub"], [Pong EXCEPT !.name = "sub"]}

\* require(pluginPath) on the path of the change yields that file's content.
readFrom(filename, src) == (filename = SubFile) = (src \in SubSources)

\* What initialize() met and what it got back: the plugin directory, the
\* environment, the outcome of fs.watch and the counts of loadAllPlugins.
Startup(dirExists, disk, development, watchOk, loaded, failed) ==
  [dirExists |-> dirExists, disk |-> disk, development |-> development,
   watchOk |-> watchOk, loaded |-> loaded, failed |-> failed]

\* What a caller holds of the last getEndpoints, getStats or healthCheck:
\* array tells whether the list held is an array of its own or the array
\* this.endpoints pointed to when it was returned ("shared").
NoHeld == [op |-> "none", array |-> "none", list |-> <<>>, stats |-> <<>>,
           health |-> <<>>, raised |-> FALSE, filters |-> NoFilters]

\* The list held after unregisterPlugin: when the file had a route entry,
\* this.endpoints is assigned a new array and the one held stays as it was.
afterUnregister(h, hadRoute) ==
  IF h.array = "shared" /\ hadRoute THEN [h EXCEPT !.array = "own"] ELSE h

\* The list held after loadPlugin returned r: a successful load pushes the
\* new endpoint onto the array this.endpoints points to.
afterLoad(h, hadRoute, r) ==
  IF r.result # "true" THEN h
  ELSE LET detached == afterUnregister(h, hadRoute) IN
       IF detached.array = "shared" THEN [detached EXCEPT !.list = r.reg.endpoints]
       ELSE detached

\* The state after construction, but for the environment.
Constructed ==
  /\ phase = "constructed"
  /\ stack = <<>>
  /\ routes = EmptyMap
  /\ plugins = EmptyMap
  /\ endpoints = <<>>
  /\ rateLimitStore = [k \in {} |-> <<>>]
  /\ pluginReloadTimeout = <<>>
  /\ watching = FALSE
  /\ now = 0
  /\ last = Step("construct", "", HostHandler, "", NoRequest, NoResponse)
  /\ pendingChange = [f \in WatchedFiles |-> <<>>]
  /\ prevRoute = [f \in FileSet |-> <<>>]
  /\ admitted = [f \in FileSet |-> <<>>]
  /\ inflight = <<>>
  /\ held = NoHeld

\* The host started with TOKEN set.
Init == Constructed /\ secret = <<TOKEN>>

\* The host started with TOKEN not set, set to the empty string, or set.
Secrets == {<<>>, <<"">>, <<TOKEN>>}
InitAnySecret == Constructed /\ secret \in Secrets

\* The timeout without its default.
timeoutOf_noDefault(plugin) == plugin.timeout

timeoutOf(plugin) == IF plugin.timeout = 0 THEN DefaultTimeout ELSE plugin.timeout

\* An awaited request: the handler armed setTimeout(reject, timeout) and
\* awaits the race; sent is the response that went out (<<>>: none yet),
\* settled whether the race is decided, lateWrites the attempts of exec to
\* send after a response had gone out, guardSends the responses the catch
\* block of the handler sent.
InFlight(req, plugin, by, t) ==
  [req |-> req, plugin |-> plugin, by |-> by, started |-> t,
   due |-> t + timeoutOf(plugin), timer |-> "armed", exec |-> "running",
   settled |-> FALSE, sent |-> <<>>, lateWrites |-> 0, guardSends |-> 0]

\* The catch block sending its 500 whatever res.headersSent says.
catchBlock_ignoresHeadersSent(r) ==
  <<InternalError(r.by, r.plugin, "skipped", TRUE)>>

\* The catch block of the handler: the 500 with an errorId unless
\* res.headersSent.
catchBlock(r) ==
  IF r.sent = <<>> THEN <<InternalError(r.by, r.plugin, "skipped", TRUE)>> ELSE r.sent

\* The awaited request once the race rejects: the catch block runs if the
\* race was not settled before.
raceRejects(r) ==
  IF r.settled THEN r
  ELSE [r EXCEPT !.settled = TRUE, !.sent = catchBlock(r),
                 !.guardSends = IF catchBlock(r) # r.sent THEN @ + 1 ELSE @]

\* ApplicationServer.initialize(): the middleware, then loadAllPlugins over
\* the directory and (in development) the watcher, then the host's own
\* routes, then the catch-all 404 and the error handler.
setupErrorHandling(stk) == stk \o <<NotFoundLayer, ErrorHandlerLayer>>

setupHostRoutes(stk) ==
  stk \o <<HostRoute("/health"), HostRoute("/metrics"), HostRoute("/api/docs"),
           HostRoute("/api/openapi.json")>>

initialize(dirExists, disk) ==
  LET afterMiddlewares == [EmptyRegistry EXCEPT !.stack = <<MiddlewareLayer>>]
      afterPlugins == loadAllPlugins(afterMiddlewares, dirExists, disk)
  IN [afterPlugins EXCEPT
        !.reg.stack = setupErrorHandling(setupHostRoutes(@))]

\* setupPluginWatching recording a watcher though fs.watch raised.
setupPluginWatching_recordsAnyway(dirExists, watchOk) == TRUE

\* setupPluginWatching(): whether a watcher is recorded in pluginWatchers.
\* fs.watch raises for a directory that does not exist or when it fails
\* otherwise (watchOk false); the raise is caught and nothing is recorded.
setupPluginWatching(dirExists, watchOk) == dirExists /\ watchOk

Initialize(disks) ==
  /\ phase = "constructed"
  /\ \E dirExists \in BOOLEAN, disk \in disks,
        development \in BOOLEAN, watchOk \in BOOLEAN :
       LET done == initialize(dirExists, disk) IN
       /\ stack' = done.reg.stack
       /\ routes' = done.reg.routes
       /\ plugins' = done.reg.plugins
       /\ endpoints' = done.reg.endpoints
       /\ watching' = (development /\ setupPluginWatching(dirExists, watchOk))
       /\ last' = [Step("initialize", "", HostHandler, "", NoRequest, NoResponse)
                     EXCEPT !.startup = <<Startup(dirExists, disk, development, watchOk,
                                                  done.loaded, done.failed)>>]
  /\ phase' = "running"
  /\ UNCHANGED <<secret, rateLimitStore, pluginReloadTimeout, now, pendingChange, prevRoute,
                 admitted, inflight, held>>

\* The fs.watch callback for a change of a .js file: debouncePluginReload.
debouncePluginReload(filename, t) == <<[filename |-> filename, due |-> t + DebounceMs]>>

FileChange(filenames) ==
  /\ phase = "running"
  /\ watching
  /\ \E filename \in filenames :
       /\ pluginReloadTimeout' = debouncePluginReload(filename, now)
       /\ pendingChange' = [pendingChange EXCEPT ![filename] = <<now>>]
       /\ last' = Step("change", filename, HostHandler, "", NoRequest, NoResponse)
  /\ UNCHANGED <<secret, phase, stack, routes, plugins, endpoints, rateLimitStore, watching,
                 now, prevRoute, admitted, inflight, held>>

\* The debounce timer expires: reloadPlugin on the file as it is on disk now.
ReloadTimerFires(sources) ==
  /\ phase = "running"
  /\ pluginReloadTimeout # <<>>
  /\ now >= pluginReloadTimeout[1].due
  /\ \E src \in sources :
       LET filename == pluginReloadTimeout[1].filename
           file == basename(filename)
           r == reloadPlugin(registry, file, src)
           replaced == r.result = "true" /\ file \in DOMAIN routes
       IN /\ readFrom(filename, src)
          /\ stack' = r.reg.stack
          /\ routes' = r.reg.routes
          /\ plugins' = r.reg.plugins
          /\ endpoints' = r.reg.endpoints
          /\ last' = [Step("reload", file, src, r.result, NoRequest, NoResponse)
                        EXCEPT !.changed = filename]
          /\ pendingChange' = [pendingChange EXCEPT ![filename] = <<>>]
          /\ prevRoute' = IF r.result = "true"
                          THEN [prevRoute EXCEPT
                                  ![file] = IF replaced THEN <<routes[file]>> ELSE <<>>]
                          ELSE prevRoute
          /\ admitted' = IF r.result = "true" /\ (~replaced \/ plugins[file] # src)
                         THEN [admitted EXCEPT ![file] = <<>>]
                         ELSE admitted
          /\ held' = afterLoad(held, file \in DOMAIN routes, r)
  /\ pluginReloadTimeout' = <<>>
  /\ UNCHANGED <<secret, phase, rateLimitStore, watching, now, inflight>>

Tick ==
  /\ phase = "running"
  /\ now + TickMs <= MaxTicks * TickMs
  /\ now' = now + TickMs
  /\ last' = Step("tick", "", HostHandler, "", NoRequest, NoResponse)
  /\ UNCHANGED <<secret, phase, stack, routes, plugins, endpoints, rateLimitStore,
                 pluginReloadTimeout, watching, pendingChange, prevRoute, admitted,
                 inflight, held>>

\* One request served by the listening host.
HandleRequest(requests) ==
  /\ phase = "running"
  /\ \E req \in requests :
       LET d == dispatch(stack, req, rateLimitStore, now) IN
       /\ rateLimitStore' = d.store
       /\ last' = Step("request", "", HostHandler, "", req, d.res)
       /\ admitted' = IF d.res.limiter = "allowed"
                      THEN [admitted EXCEPT ![d.res.by] = Append(@, now)]
                      ELSE admitted
       /\ IF d.res = Awaiting(d.res.by, d.res.plugin, d.res.limiter)
          THEN /\ Len(inflight) < MaxInFlight
               /\ inflight' = Append(inflight, InFlight(req, d.res.plugin, d.res.by, now))
          ELSE inflight' = inflight
  /\ UNCHANGED <<secret, phase, stack, routes, plugins, endpoints, pluginReloadTimeout,
                 watching, now, pendingChange, prevRoute, held>>

\* exec of an awaited request calls res.json: the response goes out if none
\* was sent, else the call raises inside exec (headers already sent), which
\* rejects its promise; a rejection reaching the handler is only logged
\* since headersSent is true.
ExecSends ==
  /\ phase = "running"
  /\ \E i \in 1..Len(inflight) :
       LET r == inflight[i] IN
       /\ r.exec = "running"
       /\ inflight' = [inflight EXCEPT ![i] =
            IF r.sent = <<>>
            THEN [r EXCEPT !.sent = <<Response(200, r.by, r.plugin, "skipped", 0, TRUE)>>]
            ELSE [raceRejects(r) EXCEPT !.exec = "rejected", !.lateWrites = @ + 1]]
       /\ last' = Step("execSends", r.by, r.plugin, "", r.req, NoResponse)
  /\ UNCHANGED <<secret, phase, stack, routes, plugins, endpoints, rateLimitStore,
                 pluginReloadTimeout, watching, now, pendingChange, prevRoute, admitted,
                 held>>

\* The promise of exec fulfils: Promise.race resolves if it is not settled
\* and the handler returns.
ExecCompletes ==
  /\ phase = "running"
  /\ \E i \in 1..Len(inflight) :
       LET r == inflight[i] IN
       /\ r.exec = "running"
       /\ inflight' = [inflight EXCEPT ![i] = [r EXCEPT !.exec = "fulfilled",
                                                        !.settled = TRUE]]
       /\ last' = Step("execCompletes", r.by, r.plugin, "", r.req, NoResponse)
  /\ UNCHANGED <<secret, phase, stack, routes, plugins, endpoints, rateLimitStore,
                 pluginReloadTimeout, watching, now, pendingChange, prevRoute, admitted,
                 held>>

\* The promise of exec rejects: if the race is not settled the catch block
\* runs and sends the 500 unless a response was sent.
ExecRejects ==
  /\ phase = "running"
  /\ \E i \in 1..Len(inflight) :
       LET r == inflight[i] IN
       /\ r.exec = "running"
       /\ inflight' = [inflight EXCEPT ![i] = [raceRejects(r) EXCEPT !.exec = "rejected"]]
       /\ last' = Step("execRejects", r.by, r.plugin, "", r.req, NoResponse)
  /\ UNCHANGED <<secret, phase, stack, routes, plugins, endpoints, rateLimitStore,
                 pluginReloadTimeout, watching, now, pendingChange, prevRoute, admitted,
                 held>>

\* The timer of the earliest armed timeout expires, at its due time or later:
\* timeoutPromise rejects; if the race is not settled the catch block runs.
\* exec is not touched, and the timer is never cleared when exec wins.
TimeoutFires ==
  /\ phase = "running"
  /\ \E i \in 1..Len(inflight) :
       LET r == inflight[i] IN
       /\ r.timer = "armed"
       /\ \A j \in 1..Len(inflight) : inflight[j].timer = "armed" => inflight[j].due >= r.due
       /\ now' = IF now < r.due THEN r.due ELSE now
       /\ inflight' = [inflight EXCEPT ![i] = [raceRejects(r) EXCEPT !.timer = "fired"]]
       /\ last' = Step("timeout", r.by, r.plugin, "", r.req, NoResponse)
  /\ UNCHANGED <<secret, phase, stack, routes, plugins, endpoints, rateLimitStore,
                 pluginReloadTimeout, watching, pendingChange, prevRoute, admitted,
                 held>>

\* loadPlugin(app, file, pluginsDir) called on the manager.
LoadPlugin(sources) ==
  /\ phase = "running"
  /\ \E file \in FileSet, src \in sources :
       LET r == loadPlugin(registry, file, src) IN
       /\ stack' = r.reg.stack
       /\ routes' = r.reg.routes
       /\ plugins' = r.reg.plugins
       /\ endpoints' = r.reg.endpoints
       /\ held' = afterLoad(held, file \in DOMAIN routes, r)
       /\ last' = Step("load", file, src, r.result, NoRequest, NoResponse)
  /\ UNCHANGED <<secret, phase, rateLimitStore, pluginReloadTimeout, watching, now,
                 pendingChange, prevRoute, admitted, inflight>>

\* unregisterPlugin(app, file) called on the manager.
UnregisterPlugin ==
  /\ phase = "running"
  /\ \E file \in FileSet :
       LET reg == unregisterPlugin(registry, file) IN
       /\ stack' = reg.stack
       /\ routes' = reg.routes
       /\ plugins' = reg.plugins
       /\ endpoints' = reg.endpoints
       /\ held' = afterUnregister(held, file \in DOMAIN routes)
       /\ last' = Step("unregister", file,
                       IF file \in DOMAIN plugins THEN plugins[file] ELSE HostHandler,
                       IF file \in DOMAIN routes THEN "removed" ELSE "absent",
                       NoRequest, NoResponse)
  /\ UNCHANGED <<secret, phase, rateLimitStore, pluginReloadTimeout, watching, now,
                 pendingChange, prevRoute, admitted, inflight>>

\* getEndpoints(filters) called by the host (docs, metrics) or anyone else.
GetEndpoints(filterSet) ==
  /\ phase = "running"
  /\ \E filters \in filterSet :
       LET r == getEndpoints(endpoints, filters) IN
       /\ endpoints' = r.endpoints
       /\ held' = [NoHeld EXCEPT !.op = "getEndpoints", !.array = r.array,
                                 !.list = r.list, !.raised = r.raised,
                                 !.filters = filters]
       /\ last' = Step("getEndpoints", "", HostHandler, "", NoRequest, NoResponse)
  /\ UNCHANGED <<secret, phase, stack, routes, plugins, rateLimitStore, pluginReloadTimeout,
                 watching, now, pendingChange, prevRoute, admitted, inflight>>

\* getStats() called by the metrics route.
GetStats ==
  /\ phase = "running"
  /\ held' = [NoHeld EXCEPT !.op = "getStats", !.stats = <<getStats(registry)>>]
  /\ last' = Step("getStats", "", HostHandler, "", NoRequest, NoResponse)
  /\ UNCHANGED <<secret, phase, stack, routes, plugins, endpoints, rateLimitStore,
                 pluginReloadTimeout, watching, now, pendingChange, prevRoute, admitted,
                 inflight>>

\* healthCheck() called by the health route.
HealthCheck ==
  /\ phase = "running"
  /\ LET r == healthCheck(plugins) IN
     held' = [NoHeld EXCEPT !.op = "healthCheck", !.health = <<r.results>>,
                            !.raised = r.raised]
  /\ last' = Step("healthCheck", "", HostHandler, "", NoRequest, NoResponse)
  /\ UNCHANGED <<secret, phase, stack, routes, plugins, endpoints, rateLimitStore,
                 pluginReloadTimeout, watching, now, pendingChange, prevRoute, admitted,
                 inflight>>

AllDisks == [FileSet -> Sources]

\* Registry and hot reload: start-up over any directory content, change
\* events, debounced reloads reading any content.
NextReload ==
  \/ Initialize(AllDisks)
  \/ FileChange(FileSet)
  \/ ReloadTimerFires(Sources)
  \/ Tick

SpecReload == Init /\ [][NextReload]_vars

\* Serving: start-up over any directory content, then requests over time.
NextServe ==
  \/ Initialize(AllDisks)
  \/ Tick
  \/ HandleRequest(Requests)

SpecServe == Init /\ [][NextServe]_vars

\* The guard handler: one plugin with authentication or parameter specs next
\* to the ping plugin, and requests over headers, query strings and bodies,
\* all within one clock reading.
GuardDisks == {[f \in FileSet |-> IF f = "a.js" THEN s ELSE Ping] : s \in GuardSources}
GuardAuthHeaders == AuthHeaders \cup {<<"Bearer">>, <<"bearer", "secret">>,
                                      <<"Bearer", "", "secret">>,
                                      <<"Bearer", "secret", "extra">>}
QueryValues == {Str(""), Str("ab"), Str("bcde"), Str("7")}
BodyValues == {Str("ab"), Num("0"), Num("7"), Bool("false"), Null}
ParamMaps(values) == UNION {[d -> values] : d \in SUBSET {"q", "n"}}
HttpMethods == {"GET", "POST", "PUT", "DELETE", "PATCH"}
OnlyQ == [n \in {"q"} |-> Str("ab")]
GuardRequests ==
  {Request(m, "/pong", <<>>, q, NoParams, "responds") :
     m \in {"GET", "POST"}, q \in ParamMaps(QueryValues)}
  \cup {Request(m, "/pong", <<>>, NoParams, b, "responds") :
          m \in {"GET", "POST"}, b \in ParamMaps(BodyValues)}
  \cup {Request(m, "/pong", <<>>, qb[1], qb[2], "responds") :
          m \in HttpMethods \ {"GET", "POST"},
          qb \in {<<NoParams, NoParams>>, <<OnlyQ, NoParams>>, <<NoParams, OnlyQ>>}}
  \cup {Request(m, "/pong", h, OnlyQ, OnlyQ, e) :
          m \in {"GET", "POST"}, h \in {<<>>, <<"Bearer", "wrong">>},
          e \in ExecOutcomes}
  \cup {Request("POST", "/ping", h, NoParams, b, "responds") :
          h \in GuardAuthHeaders, b \in {NoParams, OnlyQ}}

NextGuard ==
  \/ Initialize(GuardDisks)
  \/ HandleRequest(GuardRequests)

SpecGuard == Init /\ [][NextGuard]_vars

\* Awaited execution: a plugin with a timeout of its own (5000 ms) and one
\* with the default, neither rate limited; requests whose exec settles
\* later; the clock moves with the timers.
ExecDisks == [FileSet -> {Bare, Health}]
ExecRequests ==
  {Request("GET", p, <<>>, NoParams, NoParams, e) :
     p \in {"/ping", "/health"},
     e \in ExecOutcomes \cup {"respondsThenThrows", "pending"}}

NextExec ==
  \/ Initialize(ExecDisks)
  \/ HandleRequest(ExecRequests)
  \/ ExecSends
  \/ ExecCompletes
  \/ ExecRejects
  \/ TimeoutFires

SpecExec == Init /\ [][NextExec]_vars

\* The same with the event loop running every timer that is due: a timeout
\* that is armed fires. Nothing makes the promise of exec settle.
SpecExecLive == SpecExec /\ WF_vars(TimeoutFires)

\* The manager's interface: plugins with and without a health check, with
\* and without authentication, two of them on one route; loads, unregisters,
\* listings under filters, stats and health.
Checked(src, hc) == [src EXCEPT !.healthCheck = hc]
ApiSources == {Checked(Ping, "ok"), Checked(Pong, "raises"), Submit, NoExec}
ApiDisks == [FileSet -> {Checked(Ping, "ok"), Missing}]
ApiFilters ==
  {NoFilters,
   Filters("get", Undefined, Undefined, Undefined, Undefined, Undefined),
   Filters(Undefined, "true", Undefined, Undefined, "name", Undefined),
   Filters(Undefined, "false", Undefined, "false", "path", "desc"),
   Filters(Undefined, Undefined, Undefined, Undefined, "name", "desc"),
   Filters(Undefined, Undefined, Undefined, Undefined, "deprecated", Undefined)}

NextApi ==
  \/ Initialize(ApiDisks)
  \/ LoadPlugin(ApiSources)
  \/ UnregisterPlugin
  \/ GetEndpoints(ApiFilters)
  \/ GetStats
  \/ HealthCheck

SpecApi == Init /\ [][NextApi]_vars

\* Descriptors with every combination of a missing, empty, relative or
\* absolute path, a missing, lower-case, upper-case or unsupported method
\* and a present or missing exec, and a module that exports no object,
\* each given to loadPlugin and so to validatePlugin.
Descriptors ==
  {Source("object", p, m, x, "ping", FALSE, <<>>, <<>>) :
     p \in {Undefined, "", "ping", "/ping"},
     m \in {Undefined, "get", "GET", "TRACE"},
     x \in BOOLEAN} \cup {NotObject}
ValidateDisks == [FileSet -> {Ping, Missing}]

NextValidate ==
  \/ Initialize(ValidateDisks)
  \/ LoadPlugin(Descriptors)

SpecValidate == Init /\ [][NextValidate]_vars

\* Rate limiting: plugins that share a name ("ping": Slow and Pong), that
\* have no name (Anon), that stand alone (Health) and that have limit 0
\* (Zero), served over time.
Slow == [Ping EXCEPT !.rateLimit = <<[limit |-> 2, window |-> 2 * TickMs]>>]
Anon == [Bare EXCEPT !.path = "/pong", !.rateLimit = <<[limit |-> 1, window |-> TickMs]>>]
Zero == [Health EXCEPT !.rateLimit = <<[limit |-> 0, window |-> TickMs + 500]>>]
LimitDisks == [FileSet -> {Slow, Pong, Anon, Zero}]
LimitRequests ==
  {Request("GET", p, <<>>, NoParams, NoParams, "responds") :
     p \in {"/ping", "/pong", "/health"}}

NextLimit ==
  \/ Initialize(LimitDisks)
  \/ Tick
  \/ HandleRequest(LimitRequests)

SpecLimit == Init /\ [][NextLimit]_vars

\* The recursive watcher: start-up over the plugins directory, then changes
\* of its files and of a file of the same name in a subdirectory.
WatchDisks == [FileSet -> {Ping, Health, Missing}]
WatchSources == {Ping, Health, NoExec} \cup SubSources

NextWatch ==
  \/ Initialize(WatchDisks)
  \/ FileChange(WatchedFiles)
  \/ ReloadTimerFires(WatchSources)
  \/ Tick

SpecWatch == Init /\ [][NextWatch]_vars

\* Authentication under every configuration of the secret: a plugin with
\* authentication and one without, requests with every kind of header, the
\* tokens "undefined" and "null" among them.
SecretDisks == [FileSet -> {Submit, Ping}]
SecretHeaders == GuardAuthHeaders \cup {<<"Bearer", "undefined">>, <<"Bearer", "null">>}
SecretRequests ==
  {Request("POST", "/ping", h, NoParams, OnlyQ, "responds") : h \in SecretHeaders}
  \cup {Request("GET", "/ping", <<>>, NoParams, NoParams, "responds")}

NextSecret ==
  \/ Initialize(SecretDisks)
  \/ HandleRequest(SecretRequests)

SpecSecret == InitAnySecret /\ [][NextSecret]_vars

\* The whole host on the reload scenario: the ping plugin at start-up, edits
\* of it (a new path, a collision with a host route, a broken file), and the
\* requests that probe the routes.
HostDisks == [FileSet -> {Ping, Bare, Missing}]
HostSources == {Ping, Pong, Health, NoExec}
ProbeRequests ==
  {Request("GET", p, <<>>, NoParams, NoParams, "responds") :
     p \in {"/ping", "/pong", "/health", "/nope"}}

Next ==
  \/ Initialize(HostDisks)
  \/ FileChange(FileSet)
  \/ ReloadTimerFires(HostSources)
  \/ Tick
  \/ HandleRequest(ProbeRequests)

Spec == Init /\ [][Next]_vars

\* ---------------------------------------------------------------- claims
\* The route layers of a stack mounted at (path, method).
entriesFor(stk, path, method) ==
  {i \in 1..Len(stk) : /\ stk[i].kind = "route"
                       /\ stk[i].path = path
                       /\ stk[i].method = toLowerCase(method)}

HostPaths == {"/health", "/metrics", "/api/docs", "/api/openapi.json"}

\* File f was reloaded from path p to another path q under the same method,
\* and neither path is declared by another file or by the host.
MovedAlone(f) ==
  /\ phase = "running"
  /\ f \in DOMAIN routes
  /\ prevRoute[f] # <<>>
  /\ prevRoute[f][1].method = routes[f].method
  /\ prevRoute[f][1].routePath # routes[f].routePath
  /\ \A g \in DOMAIN routes \ {f} :
       routes[g].routePath \notin {prevRoute[f][1].routePath, routes[f].routePath}
  /\ {prevRoute[f][1].routePath, routes[f].routePath} \cap HostPaths = {}

\* C1: once the host is initialised, after a successful reload of f that
\* changed its path from p to q, a request for (method, p) is answered 404
\* and a request for (method, q) goes to f's new handler and is answered 200.
C1_ReloadMovesRoute ==
  \A f \in FileSet :
    (MovedAlone(f) /\ last.op = "request" /\ last.req.method = routes[f].method) =>
      /\ last.req.path = prevRoute[f][1].routePath => last.res.status = 404
      /\ last.req.path = routes[f].routePath =>
           /\ last.res.by = f
           /\ last.res.plugin = plugins[f]
           /\ (last.req.exec = "responds" /\ last.res.execCalled) => last.res.status = 200

\* C2: the route stack never holds two entries for the same (path, method),
\* also when two plugin files declare the same path and method.
C2_NoDuplicateRoute ==
  \A i, j \in 1..Len(stack) :
    (/\ i # j
     /\ stack[i].kind = "route" /\ stack[i].owner \in FileSet
     /\ stack[j].kind = "route" /\ stack[j].owner \in FileSet
     /\ stack[i].path = stack[j].path) => stack[i].method # stack[j].method

\* C3: after each load(f) that returns true the stack holds exactly one
\* entry for f's current (path, method) and none for the (path, method) of
\* the version it replaced, when that differs.
C3_ExactlyOneEntryAfterLoad ==
  (last.op = "reload" /\ last.result = "true") =>
    LET f == last.file
        cur == routes[f]
    IN /\ Cardinality(entriesFor(stack, cur.routePath, cur.method)) = 1
       /\ (prevRoute[f] # <<>> /\ prevRoute[f][1] # cur) =>
            entriesFor(stack, prevRoute[f][1].routePath, prevRoute[f][1].method) = {}

\* C4: handle, route entry and endpoint metadata exist for the same files:
\* a file has a handle iff it has a route entry iff its endpoint record is
\* stored, and the three collections have the same size.
C4_RegistryTransactional ==
  /\ DOMAIN routes = DOMAIN plugins
  /\ \A f \in DOMAIN plugins :
       \E i \in 1..Len(endpoints) : endpoints[i] = endpointOf(plugins[f], f)
  /\ Len(endpoints) = Cardinality(DOMAIN routes)

\* A descriptor that lacks path, lacks an invocable exec, or names a method
\* outside the five verbs.
LacksOrUnsupported(src) ==
  /\ src.kind = "object"
  /\ \/ src.path \in {Undefined, ""}
     \/ ~src.exec
     \/ (src.method # Undefined /\ toUpperCase(src.method) \notin allowedMethods)

C6_FailedLoadKeepsOldVersion ==
  [][(/\ last'.op = "reload"
      /\ last'.result # "true"
      /\ last'.file \in DOMAIN routes) =>
       /\ stack' = stack
       /\ routes' = routes
       /\ plugins' = plugins
       /\ endpoints' = endpoints
       /\ \A req \in Requests : firstHandling(stack', 1, req) = firstHandling(stack, 1, req)]_vars

C6_Witness ==
  /\ last.op = "reload"
  /\ last.result # "true"
  /\ last.file \in DOMAIN routes
  /\ \E i \in 1..Len(stack) : stack[i].owner = last.file /\ stack[i].plugin = plugins[last.file]

\* C7: a change event for one file never cancels the pending reload of
\* another file.
C7_IndependentDebounce ==
  [][\A f \in FileSet :
       (/\ pluginReloadTimeout # <<>>
        /\ pluginReloadTimeout[1].filename = f
        /\ last'.op = "change"
        /\ last'.file # f) =>
         (pluginReloadTimeout' # <<>> /\ pluginReloadTimeout'[1].filename = f)]_vars

\* C8: a burst of change events on one file is followed by exactly one
\* reload of it, started a full window after the last event: a reload starts
\* only for a file with an unreloaded change whose last event is at least
\* the window old, and no change is left unreloaded once no timer is pending.
C8_OneReloadPerBurst ==
  /\ [](pluginReloadTimeout = <<>> => \A f \in FileSet : pendingChange[f] = <<>>)
  /\ [][last'.op = "reload" =>
          /\ pendingChange[last'.file] # <<>>
          /\ now' - pendingChange[last'.file][1] >= DebounceMs]_vars

\* The admitted requests of file f's handler that lie inside the window at t.
admittedInWindow(f, window, t) ==
  Cardinality({i \in 1..Len(admitted[f]) : t - admitted[f][i] < window})

\* C9: a request that reaches the limiter of a plugin with {limit L, window W}
\* is denied with 429 when L requests of the client admitted by that plugin
\* lie less than W back, and is admitted when fewer do.
C9_SlidingWindow ==
  [][(last'.op = "request" /\ last'.res.limiter \in {"allowed", "denied"}) =>
       LET rl == last'.res.plugin.rateLimit[1]
           n == admittedInWindow(last'.res.by, rl.window, now')
       IN /\ n >= rl.limit => (last'.res.status = 429 /\ last'.res.limiter = "denied")
          /\ n < rl.limit => last'.res.limiter = "allowed"]_vars

\* C10: a denied check leaves the rate-limit store as it was.
C10_DenyLeavesStore ==
  [][(last'.op = "request" /\ last'.res.limiter = "denied") =>
       rateLimitStore' = rateLimitStore]_vars

C10_Witness ==
  /\ last.op = "request"
  /\ last.res.limiter = "denied"
  /\ last.res.status = 429
  /\ rateKey(last.req.ip, last.res.plugin) \in DOMAIN rateLimitStore

\* The registered files whose plugin declares a rateLimit and checks it under
\* store key k.
limitedUnder(k) ==
  {f \in DOMAIN plugins : /\ plugins[f].rateLimit # <<>>
                          /\ rateKey(ClientIp, plugins[f]) = k}

\* C11: no entry of the rate-limit store is still there once more than the
\* window has passed since the last timestamp recorded under its key.
C11_NoStaleEntry ==
  \A k \in DOMAIN rateLimitStore :
    \E f \in limitedUnder(k) :
      LET times == rateLimitStore[k] IN
      /\ times # <<>>
      /\ now - times[Len(times)] <= plugins[f].rateLimit[1].window

\* C12: the timestamps stored under a key never number more than the current
\* limit of the plugin the key belongs to, also after that plugin was
\* reloaded with another rateLimit.
C12_StoreBoundedByLimit ==
  \A k \in DOMAIN rateLimitStore :
    \A f \in limitedUnder(k) :
      limitedUnder(k) = {f} => Len(rateLimitStore[k]) <= plugins[f].rateLimit[1].limit

\* The step just taken served a request through the guard handler of a file.
Guarded(step) == step.op = "request" /\ step.res.by \in FileSet

\* Authentication does not stop the request: it is off or the header passes.
authPassed(plugin, req) == ~plugin.authentication \/ validateAuthentication(req).valid

\* C13: the guard handler runs authentication, parameter validation, rate
\* limiting and exec in this order and stops at the first failure: exec runs
\* only when every earlier step passed, the earliest failing step decides
\* the response, and a request rejected by authentication or by parameter
\* validation leaves the rate-limit store as it was.
C13_GuardOrder ==
  [][Guarded(last') =>
       LET plugin == last'.res.plugin
           req == last'.req
           res == last'.res
           authOk == authPassed(plugin, req)
           v == validateParameters(plugin, req)
           paramsOk == v.valid /\ ~v.thrown
           limitOk == \/ plugin.rateLimit = <<>>
                      \/ checkRateLimit(rateLimitStore, req, plugin, now).allowed
       IN /\ res.execCalled => (authOk /\ paramsOk /\ limitOk)
          /\ ~authOk => (res.status \in {401, 403} /\ rateLimitStore' = rateLimitStore)
          /\ (authOk /\ ~paramsOk) =>
                (res.status \in {400, 500} /\ rateLimitStore' = rateLimitStore)
          /\ (authOk /\ paramsOk /\ ~limitOk) => res.status = 429
          /\ (authOk /\ paramsOk /\ limitOk) => res.execCalled]_vars

\* A request with a bad header and a missing parameter, sent when the budget
\* of the plugin is used up, was answered by the authentication step.
C13_Witness ==
  /\ Guarded(last)
  /\ last.res.status = 401
  /\ ~validateParameters(last.res.plugin, last.req).valid
  /\ last.res.plugin.rateLimit # <<>>
  /\ ~checkRateLimit(rateLimitStore, last.req, last.res.plugin, now).allowed
  /\ ~last.res.execCalled

\* C14: with authentication enabled, no header is answered 401, a header
\* that is not "Bearer <token>" or has an empty token is answered 401, a
\* Bearer token other than the secret is answered 403 and the right token
\* goes on to parameter validation; with authentication off no request is
\* answered 401 or 403. The token is the segment that follows "Bearer ".
C14_AuthStatuses ==
  Guarded(last) =>
    LET plugin == last.res.plugin
        h == last.req.authorization
        status == last.res.status
        bearer == Len(h) >= 2 /\ h[1] = "Bearer"
        v == validateParameters(plugin, last.req)
    IN IF ~plugin.authentication THEN status \notin {401, 403}
       ELSE /\ h = <<>> => status = 401
            /\ (h # <<>> /\ ~bearer) => status = 401
            /\ (bearer /\ h[2] = "") => status = 401
            /\ (bearer /\ h[2] \notin {"", TOKEN}) => status = 403
            /\ (bearer /\ h[2] = TOKEN) =>
                 /\ status \notin {401, 403}
                 /\ (status = 400) = (~v.valid /\ ~v.thrown)

C14_Witness ==
  /\ Guarded(last)
  /\ last.res.plugin.authentication
  /\ last.req.authorization = <<"Bearer", "wrong">>
  /\ last.res.status = 403

\* C15: a request passes authentication only if what follows "Bearer " in
\* its header is exactly the secret, with no segment after it.
C15_ExactMatch ==
  (Guarded(last) /\ last.res.plugin.authentication
     /\ last.res.status \notin {401, 403})
  => last.req.authorization = <<"Bearer", TOKEN>>

\* The names the parameter list requires: bare names and specs whose
\* required is not false.
requiredNames(parameter) ==
  {parameter[i].name : i \in {j \in 1..Len(parameter) : parameter[j].required # "false"}}

\* C16: a request to a plugin mounted under GET whose query string omits a
\* required parameter n is answered 400 with a detail naming n, and exec is
\* not invoked (requests stopped by authentication, and validations that
\* raise, aside).
C16_RequiredMissing ==
  (Guarded(last) /\ authPassed(last.res.plugin, last.req)
     /\ methodOf(last.res.plugin) = "GET"
     /\ ~validateParameters(last.res.plugin, last.req).thrown)
  => \A n \in requiredNames(last.res.plugin.parameter) :
       n \notin DOMAIN last.req.query =>
         /\ last.res.status = 400
         /\ \E i \in 1..Len(last.res.details) : last.res.details[i].param = n
         /\ ~last.res.execCalled

\* The constraints of one parameter spec that a source violates: required
\* but absent, or, for a value that is present, type mismatch, length below
\* min, length above max, pattern mismatch.
violatedBy(param, source) ==
  LET name == param.name IN
  IF name \notin DOMAIN source
  THEN IF param.required # "false" THEN <<Detail(name, "required")>> ELSE <<>>
  ELSE IF param.form = "string" THEN <<>>
  ELSE LET value == source[name] IN
       (IF param.type # Undefined /\ ~validateType(value, param.type)
        THEN <<Detail(name, "type")>> ELSE <<>>)
       \o (IF param.min # <<>> /\ value.t = "string" /\ Len(value.s) < param.min[1]
           THEN <<Detail(name, "min")>> ELSE <<>>)
       \o (IF param.max # <<>> /\ value.t = "string" /\ Len(value.s) > param.max[1]
           THEN <<Detail(name, "max")>> ELSE <<>>)
       \o (IF param.pattern # Undefined /\ ~matches(param.pattern, value)
           THEN <<Detail(name, "pattern")>> ELSE <<>>)

RECURSIVE violations(_, _, _)
violations(parameter, i, source) ==
  IF i > Len(parameter) THEN <<>>
  ELSE violatedBy(parameter[i], source) \o violations(parameter, i + 1, source)

\* C17: validation checks every parameter spec whatever the others yield;
\* the 400 lists one detail per violated constraint in the order of the
\* parameter list, and the request is valid iff no constraint is violated.
C17_AllViolationsListed ==
  (Guarded(last) /\ authPassed(last.res.plugin, last.req))
  => LET plugin == last.res.plugin
         expected == violations(plugin.parameter, 1, sourceOf(plugin, last.req))
     IN IF expected = <<>> THEN last.res.limiter # "skipped"
        ELSE last.res.status = 400 /\ last.res.details = expected

\* C18: a parameter that is not required and is absent from the request
\* yields no validation error, whatever its type, min, max and pattern.
C18_AbsentOptionalUnchecked ==
  (Guarded(last) /\ authPassed(last.res.plugin, last.req))
  => LET parameter == last.res.plugin.parameter IN
     \A i \in 1..Len(parameter) :
       (/\ parameter[i].required = "false"
        /\ parameter[i].name \notin DOMAIN last.req.query
        /\ parameter[i].name \notin DOMAIN last.req.body)
       => \A j \in 1..Len(last.res.details) :
            last.res.details[j].param # parameter[i].name

\* A request without the optional parameter n, which declares a type, a min
\* and a max, was validated and handed to exec.
C18_Witness ==
  /\ Guarded(last)
  /\ last.res.plugin.parameter = FormParams
  /\ "n" \notin DOMAIN last.req.query
  /\ "n" \notin DOMAIN last.req.body
  /\ last.res.status = 200
  /\ last.res.execCalled

\* C19: a plugin mounted under GET, also by default, has its parameters
\* validated against the query string; one mounted under POST, PUT, DELETE
\* or PATCH against the request body (validations that raise aside).
C19_SourceByMountedMethod ==
  (Guarded(last) /\ authPassed(last.res.plugin, last.req)
     /\ last.res.plugin.parameter # <<>>)
  => LET plugin == last.res.plugin
         source == IF methodOf(plugin) = "GET" THEN last.req.query ELSE last.req.body
         result == paramErrors(plugin.parameter, 1, source)
     IN (~result.thrown /\ ~validateParameters(plugin, last.req).thrown) =>
          /\ (last.res.status = 400) = (result.errors # <<>>)
          /\ last.res.details = result.errors

\* C20: when the timeout of a plugin (30000 ms when it declares none)
\* expires while exec has neither completed nor sent a response, the request
\* is answered 500 with an errorId and exec goes on running; a response that
\* went out is never changed by what happens afterwards.
C20_TimeoutAnswers500 ==
  [][\A i \in 1..Len(inflight) :
       LET before == inflight[i]
           after == inflight'[i]
           timeout == IF before.plugin.timeout = 0 THEN DefaultTimeout
                      ELSE before.plugin.timeout
       IN /\ (before.timer = "armed" /\ after.timer = "fired") =>
               now' >= before.started + timeout
          /\ (/\ before.timer = "armed" /\ after.timer = "fired"
              /\ before.exec = "running" /\ before.sent = <<>>) =>
               /\ after.sent # <<>>
               /\ after.sent[1].status = 500
               /\ after.sent[1].errorId
               /\ after.exec = "running"
          /\ before.sent # <<>> => after.sent = before.sent]_vars

\* A plugin without a timeout of its own was answered 500 after 30000 ms,
\* and exec then tried to send its response.
C20_Witness ==
  \E i \in 1..Len(inflight) :
    /\ inflight[i].plugin.timeout = 0
    /\ inflight[i].timer = "fired"
    /\ now >= inflight[i].started + DefaultTimeout
    /\ inflight[i].sent # <<>>
    /\ inflight[i].sent[1].status = 500
    /\ inflight[i].sent[1].errorId
    /\ inflight[i].lateWrites > 0

listedIn(disk) == {f \in FileSet : disk[f].kind # "missing"}
validIn(disk) ==
  {f \in listedIn(disk) : disk[f].kind = "object" /\ validatePlugin(disk[f]).valid}

\* C22: loadAll handles every plugin file once whatever the other files do:
\* loaded + failed is the number of files, loaded the number of files whose
\* load succeeded, every file with a valid descriptor is registered (route
\* entry, handle with the descriptor read, one layer of its own) whatever
\* comes before it, and a missing directory yields {loaded: 0, failed: 0}.
C22_LoadAllCounts ==
  last.op = "initialize" =>
    LET s == last.startup[1] IN
    IF ~s.dirExists
    THEN s.loaded = 0 /\ s.failed = 0 /\ DOMAIN routes = {}
    ELSE /\ s.loaded + s.failed = Cardinality(listedIn(s.disk))
         /\ s.loaded = Cardinality(validIn(s.disk))
         /\ DOMAIN routes = validIn(s.disk)
         /\ DOMAIN plugins = validIn(s.disk)
         /\ \A f \in validIn(s.disk) :
              /\ plugins[f] = s.disk[f]
              /\ Cardinality({i \in 1..Len(stack) : stack[i].owner = f}) = 1

\* A file that raises when required comes first and a valid one after it.
C22_Witness ==
  /\ last.op = "initialize"
  /\ last.startup[1].dirExists
  /\ last.startup[1].disk[Files[1]].kind = "throws"
  /\ validIn(last.startup[1].disk) = {Files[2]}
  /\ last.startup[1].loaded = 1
  /\ last.startup[1].failed = 1
  /\ Files[2] \in DOMAIN routes

\* C23: unregisterPlugin for a file without a route entry changes nothing
\* (stack, routes, plugins, endpoints stay as they were), and a second
\* unregisterPlugin of the same file right after the first changes nothing.
C23_UnregisterAbsentIsNoOp ==
  /\ [][(last'.op = "unregister" /\ last'.result = "absent")
          => UNCHANGED <<stack, routes, plugins, endpoints>>]_vars
  /\ [][(last.op = "unregister" /\ last'.op = "unregister" /\ last'.file = last.file)
          => UNCHANGED <<stack, routes, plugins, endpoints>>]_vars
  /\ [](\A file \in FileSet :
          unregisterPlugin(unregisterPlugin(registry, file), file)
            = unregisterPlugin(registry, file))

C23_Witness ==
  /\ last.op = "unregister" /\ last.result = "absent"
  /\ DOMAIN routes # {} /\ endpoints # <<>>

\* The check an error message of validatePlugin reports on.
checkOf(message) ==
  CASE message = "Plugin must have a valid 'path' property" -> "path"
    [] message = "Route path must start with '/'" -> "path"
    [] message = "Plugin must have a valid 'exec' function" -> "exec"
    [] OTHER -> "method"

\* The checks a descriptor fails, in the order path, exec, method.
failedChecks(plugin) ==
  (IF plugin.path = Undefined \/ plugin.path = "" \/ ~startsWithSlash(plugin.path)
   THEN <<"path">> ELSE <<>>)
  \o (IF ~plugin.exec THEN <<"exec">> ELSE <<>>)
  \o (IF toUpperCase(IF plugin.method = Undefined THEN "GET" ELSE plugin.method)
          \notin allowedMethods
      THEN <<"method">> ELSE <<>>)

\* C24: validatePlugin reports valid exactly for an object with a non-empty
\* path starting with "/", an exec and a supported method (GET when none is
\* given), and for an object it returns one error per failed check in the
\* order path, exec, method.
C24_ErrorsInCheckOrder ==
  last.op = "load" =>
    LET validation == validatePlugin(last.src) IN
    /\ validation.valid = (last.src.kind = "object" /\ failedChecks(last.src) = <<>>)
    /\ (last.src.kind = "object") =>
         [i \in 1..Len(validation.errors) |-> checkOf(validation.errors[i])]
           = failedChecks(last.src)

\* The same with the errors taken as a set: every failed check is reported
\* once, whatever the order.
C24_EveryFailedCheckReported ==
  last.op = "load" =>
    LET validation == validatePlugin(last.src) IN
    /\ validation.valid = (last.src.kind = "object" /\ failedChecks(last.src) = <<>>)
    /\ (last.src.kind = "object") =>
         /\ Len(validation.errors) = Len(failedChecks(last.src))
         /\ {checkOf(validation.errors[i]) : i \in 1..Len(validation.errors)}
              = {failedChecks(last.src)[i] : i \in 1..Len(failedChecks(last.src))}

\* C25: the list a getEndpoints call returned stays as it was returned
\* (length, order, field values) across every later loadPlugin, reloadPlugin
\* and unregisterPlugin.
C25_ReturnedListIndependent ==
  [][(held.op = "getEndpoints" /\ last'.op \in {"load", "reload", "unregister"})
       => (held'.op = "getEndpoints" /\ held'.list = held.list)]_vars

C25_Witness ==
  /\ held.op = "getEndpoints" /\ held.filters = NoFilters /\ ~held.raised
  /\ Len(held.list) = 1
  /\ last.op = "load" /\ last.result = "true"
  /\ Len(endpoints) = 2

C25_WitnessUnregister ==
  /\ held.op = "getEndpoints" /\ Len(held.list) = 2
  /\ last.op = "unregister" /\ last.result = "removed"
  /\ Len(endpoints) = 1

\* C26: getEndpoints, under every combination of filters and sortBy, and
\* getStats leave the stack, this.routes, this.plugins and the stored order
\* of this.endpoints as they were, and getStats reports the counts of the
\* registry at the moment of the call.
C26_ReadsLeaveRegistry ==
  /\ [][last'.op \in {"getEndpoints", "getStats"}
          => UNCHANGED <<stack, routes, plugins, endpoints>>]_vars
  /\ [][last'.op = "getStats" =>
          /\ held'.stats[1].totalPlugins = Cardinality(DOMAIN plugins)
          /\ held'.stats[1].totalEndpoints = Len(endpoints)
          /\ held'.stats[1].authRequiredCount =
               Cardinality({i \in 1..Len(endpoints) : endpoints[i].authentication})
          /\ held'.stats[1].deprecatedCount =
               Cardinality({i \in 1..Len(endpoints) : endpoints[i].deprecated})
          /\ \A m \in allowedMethods :
               Cardinality({i \in 1..Len(endpoints) : endpoints[i].method = m})
                 = IF m \in DOMAIN held'.stats[1].methodDistribution
                   THEN held'.stats[1].methodDistribution[m] ELSE 0]_vars

\* A sorted listing whose order differs from the stored one.
C26_Witness ==
  /\ held.op = "getEndpoints" /\ held.filters.sortBy = "name" /\ ~held.raised
  /\ Len(held.list) = 2 /\ held.list # endpoints

\* Stats taken after the registry changed since the stats before.
C26_WitnessStats ==
  /\ held.op = "getStats" /\ held.stats[1].totalPlugins = 2
  /\ held.stats[1].authRequiredCount = 1
  /\ DOMAIN held.stats[1].methodDistribution = {"GET", "POST"}

C28_WatchFailureDegrades ==
  /\ [][(last'.op = "initialize" /\ last'.startup[1].development
            /\ ~(last'.startup[1].dirExists /\ last'.startup[1].watchOk))
          => /\ phase' = "running"
             /\ ~watching'
             /\ DOMAIN routes' = (IF last'.startup[1].dirExists
                                  THEN validIn(last'.startup[1].disk) ELSE {})
             /\ DOMAIN plugins' = DOMAIN routes']_vars
  /\ [][(phase = "running" /\ ~watching)
          => /\ ~watching'
             /\ last'.op \notin {"change", "reload"}
             /\ pluginReloadTimeout' = <<>>
             /\ UNCHANGED <<phase, stack, routes, plugins, endpoints>>]_vars

C28_Witness ==
  /\ last.op = "initialize" /\ phase = "running"
  /\ last.startup[1].development /\ last.startup[1].dirExists
  /\ ~last.startup[1].watchOk
  /\ DOMAIN routes = FileSet
  /\ ~watching

\* Time has passed since a start-up without a watcher.
C28_WitnessLater ==
  /\ phase = "running" /\ ~watching /\ now > 0 /\ DOMAIN routes # {}

\* The route of a file is mounted with the descriptor given: its route
\* entry, its handle and a layer of its own on the descriptor's route.
mountedAs(file, plugin) ==
  /\ file \in DOMAIN routes
  /\ routes[file].routePath = plugin.path
  /\ routes[file].method = methodOf(plugin)
  /\ file \in DOMAIN plugins /\ plugins[file] = plugin
  /\ \E i \in 1..Len(stack) :
       /\ stack[i].kind = "route" /\ stack[i].owner = file
       /\ stack[i].plugin = plugin
       /\ stack[i].path = plugin.path
       /\ stack[i].method = toLowerCase(methodOf(plugin))

\* C29: a successful load removes the old route of the file and mounts the
\* new one in one task turn: the state the turn ends in, which is the state
\* any request, load or watcher callback after it starts from, has the new
\* route mounted, and no request is dispatched on a stack in which the file
\* just loaded has no route.
C29_SwapInOneTurn ==
  /\ []((last.op \in {"load", "reload"} /\ last.result = "true")
          => mountedAs(last.file, last.src))
  /\ [][(last.op \in {"load", "reload"} /\ last.result = "true"
            /\ last'.op = "request")
          => /\ mountedAs(last.file, last.src)
             /\ UNCHANGED <<stack, routes, plugins, endpoints>>]_vars

\* A reload that replaced a route on /ping by one on /pong.
C29_Witness ==
  /\ last.op = "reload" /\ last.result = "true"
  /\ prevRoute[last.file] # <<>>
  /\ prevRoute[last.file][1].routePath = "/ping"
  /\ last.src.path = "/pong"
  /\ ~\E i \in 1..Len(stack) : stack[i].owner = last.file /\ stack[i].path = "/ping"

\* The request asks for the route of the plugin, and the plugin neither
\* authenticates nor requires a parameter.
openRouteOf(plugin, req) ==
  /\ ~plugin.authentication
  /\ requiredNames(plugin.parameter) = {}
  /\ req.method = methodOf(plugin)
  /\ req.path = plugin.path

\* The plugin of file f has admitted fewer requests of the client inside
\* its window than its limit, or has no rateLimit.
withinLimit(f, t) ==
  \/ plugins[f].rateLimit = <<>>
  \/ admittedInWindow(f, plugins[f].rateLimit[1].window, t)
       < plugins[f].rateLimit[1].limit

\* The response is the one exec of file f's descriptor sent, and nothing
\* else.
execResponseOf(f, res) ==
  /\ res.status = 200
  /\ res.execCalled
  /\ res.plugin = plugins[f]
  /\ res.details = <<>> /\ res.retryAfter = 0

\* C30: for every plugin registered by loadAllPlugins that has no
\* authentication and no required parameter, a request for its (method,
\* path) within its rate limit, whose exec responds, invokes that exec and
\* is answered by exec's 200 response alone.
C30_OpenPluginAnswers ==
  [][last'.op = "request" =>
       \A f \in DOMAIN plugins :
         (/\ openRouteOf(plugins[f], last'.req)
          /\ last'.req.exec = "responds"
          /\ withinLimit(f, now))
         => execResponseOf(f, last'.res)]_vars

\* No other file declares the route or the name of file f's plugin.
aloneOnRouteAndName(f) ==
  \A g \in DOMAIN plugins \ {f} :
    /\ ~(plugins[g].path = plugins[f].path /\ methodOf(plugins[g]) = methodOf(plugins[f]))
    /\ rateKey(ClientIp, plugins[g]) # rateKey(ClientIp, plugins[f])

\* The same for a plugin that shares neither its route nor its name, on a
\* request whose parameters pass validation.
C30_OpenPluginAnswersWhenAlone ==
  [][last'.op = "request" =>
       \A f \in DOMAIN plugins :
         (/\ openRouteOf(plugins[f], last'.req)
          /\ last'.req.exec = "responds"
          /\ withinLimit(f, now)
          /\ aloneOnRouteAndName(f)
          /\ validateParameters(plugins[f], last'.req).valid
          /\ ~validateParameters(plugins[f], last'.req).thrown)
         => execResponseOf(f, last'.res)]_vars

\* The number of requests file f's plugin admitted with a timestamp in the
\* half-open interval [from, from + window).
admittedFrom(f, from, window) ==
  Cardinality({j \in 1..Len(admitted[f]) :
                 from <= admitted[f][j] /\ admitted[f][j] < from + window})

\* C31: for a plugin with rateLimit {limit, window}, under every order of
\* the client's requests, no half-open interval of length window holds more
\* than limit admitted requests (the intervals that start at an admitted
\* timestamp are the fullest ones).
C31_AtMostLimitPerWindow ==
  \A f \in DOMAIN plugins :
    plugins[f].rateLimit # <<>> =>
      \A i \in 1..Len(admitted[f]) :
        admittedFrom(f, admitted[f][i], plugins[f].rateLimit[1].window)
          <= plugins[f].rateLimit[1].limit

\* The same for a plugin whose store key no other registered plugin uses.
C31_AtMostLimitPerWindowOwnKey ==
  \A f \in DOMAIN plugins :
    (plugins[f].rateLimit # <<>> /\ limitedUnder(rateKey(ClientIp, plugins[f])) = {f}) =>
      \A i \in 1..Len(admitted[f]) :
        admittedFrom(f, admitted[f][i], plugins[f].rateLimit[1].window)
          <= plugins[f].rateLimit[1].limit

\* C32: the retryAfter of every 429 of the limiter, for every limit >= 0, is
\* ceil((window - (now - oldest)) / 1000) for the oldest timestamp of the
\* key still inside the window, an integer from 1 to ceil(window / 1000).
C32_RetryAfterInRange ==
  [][(last'.op = "request" /\ last'.res.limiter = "denied") =>
       LET plugin == last'.res.plugin
           window == plugin.rateLimit[1].window
           key == rateKey(last'.req.ip, plugin)
           requests == IF key \in DOMAIN rateLimitStore THEN rateLimitStore[key] ELSE <<>>
           inside == {i \in 1..Len(requests) : now - requests[i] < window}
       IN /\ last'.res.status = 429
          /\ inside # {}
          /\ \E i \in inside :
               /\ \A j \in inside : requests[i] <= requests[j]
               /\ last'.res.retryAfter = ceilSeconds(window - (now - requests[i]))
          /\ 1 <= last'.res.retryAfter
          /\ last'.res.retryAfter <= ceilSeconds(window)]_vars

\* The same for the plugins whose limit is at least 1.
C32_RetryAfterInRangePositiveLimit ==
  [][(last'.op = "request" /\ last'.res.limiter = "denied"
        /\ last'.res.plugin.rateLimit[1].limit >= 1) =>
       LET plugin == last'.res.plugin
           window == plugin.rateLimit[1].window
           key == rateKey(last'.req.ip, plugin)
           requests == IF key \in DOMAIN rateLimitStore THEN rateLimitStore[key] ELSE <<>>
           inside == {i \in 1..Len(requests) : now - requests[i] < window}
       IN /\ last'.res.status = 429
          /\ inside # {}
          /\ \E i \in inside :
               /\ \A j \in inside : requests[i] <= requests[j]
               /\ last'.res.retryAfter = ceilSeconds(window - (now - requests[i]))
          /\ 1 <= last'.res.retryAfter
          /\ last'.res.retryAfter <= ceilSeconds(window)]_vars

\* The endpoints of the list that equal e.
occurrences(eps, e) == {i \in 1..Len(eps) : eps[i] = e}

\* C33: after every successful load of a file its route entry, its handle,
\* its endpoint and the handler of its layer are those of the descriptor
\* just read, and neither a layer nor the endpoint of the version before is
\* left; and in every state the layers a file owns carry the descriptor of
\* its handle.
C33_RegistryReflectsLatestLoad ==
  /\ [][(last'.op \in {"load", "reload"} /\ last'.result = "true") =>
          LET f == last'.file
              src == last'.src
          IN /\ routes'[f] = [routePath |-> src.path, method |-> methodOf(src)]
             /\ plugins'[f] = src
             /\ \E i \in 1..Len(stack') : stack'[i].owner = f
             /\ \A i \in 1..Len(stack') :
                  stack'[i].owner = f =>
                    /\ stack'[i].plugin = src
                    /\ stack'[i].path = src.path
                    /\ stack'[i].method = toLowerCase(methodOf(src))
             /\ occurrences(endpoints', endpointOf(src, f)) # {}
             /\ (f \in DOMAIN plugins /\ endpointOf(plugins[f], f) # endpointOf(src, f))
                  => occurrences(endpoints', endpointOf(plugins[f], f)) = {}]_vars
  /\ [](\A i \in 1..Len(stack) :
          stack[i].owner \in FileSet =>
            /\ stack[i].owner \in DOMAIN plugins
            /\ stack[i].plugin = plugins[stack[i].owner])

\* A reload that gave the file another path, name and rate limit.
C33_Witness ==
  /\ last.op = "reload" /\ last.result = "true"
  /\ prevRoute[last.file] # <<>>
  /\ prevRoute[last.file][1].routePath # last.src.path
  /\ plugins[last.file] = last.src

\* What the registry holds of file g: its layers, its route entry, its
\* handle and the endpoints of its route.
partsOf(stk, rts, plg, eps, g) ==
  [layers |-> SelectSeq(stk, LAMBDA layer : layer.owner = g),
   route |-> IF g \in DOMAIN rts THEN <<rts[g]>> ELSE <<>>,
   plugin |-> IF g \in DOMAIN plg THEN <<plg[g]>> ELSE <<>>,
   endpoints |-> IF g \in DOMAIN rts
                 THEN SelectSeq(eps, LAMBDA e : /\ e.path = rts[g].routePath
                                               /\ e.method = rts[g].method)
                 ELSE <<>>]

\* C34: a load, reload or unregister of file f leaves every other file g's
\* layer, route entry, handle and endpoint as they were, also when g has the
\* path and method of f, and leaves the layers of the host in place.
C34_OnlyOwnPartsChange ==
  [][last'.op \in {"load", "reload", "unregister"} =>
       /\ \A g \in FileSet \ {last'.file} :
            LET before == partsOf(stack, routes, plugins, endpoints, g)
                after == partsOf(stack', routes', plugins', endpoints', g)
            IN /\ after.layers = before.layers
               /\ after.route = before.route
               /\ after.plugin = before.plugin
               /\ \A i \in 1..Len(before.endpoints) :
                    \E j \in 1..Len(after.endpoints) :
                      after.endpoints[j] = before.endpoints[i]
       /\ SelectSeq(stack', LAMBDA layer : layer.owner = "host")
            = SelectSeq(stack, LAMBDA layer : layer.owner = "host")]_vars

\* The same for the files g whose route (path, method) differs from the
\* route file f had and from the routes of the host.
C34_OnlyOwnPartsChangeOtherRoute ==
  [][last'.op \in {"load", "reload", "unregister"} =>
       /\ \A g \in FileSet \ {last'.file} :
            (last'.file \in DOMAIN routes /\ g \in DOMAIN routes
               /\ routes[g] = routes[last'.file])
            \/ LET before == partsOf(stack, routes, plugins, endpoints, g)
                   after == partsOf(stack', routes', plugins', endpoints', g)
               IN /\ after.layers = before.layers
                  /\ after.route = before.route
                  /\ after.plugin = before.plugin
                  /\ \A i \in 1..Len(before.endpoints) :
                       \E j \in 1..Len(after.endpoints) :
                         after.endpoints[j] = before.endpoints[i]]_vars

\* C35: the reload a change of the file in the subdirectory brings about
\* leaves the route entry, the handle, the layer and the endpoint of every
\* file of the plugins directory as they were, the one of the same base
\* name included: the two are registered under identities of their own.
C35_OwnIdentityPerSourceFile ==
  [][(last'.op = "reload" /\ last'.changed = SubFile) =>
       \A g \in FileSet :
         (g \in DOMAIN plugins /\ plugins[g] \notin SubSources) =>
           partsOf(stack', routes', plugins', endpoints', g)
             = partsOf(stack, routes, plugins, endpoints, g)]_vars

\* The same for the changes of the files of the plugins directory itself and
\* the files with another base name.
C35_TopLevelReloadsOwnFile ==
  [][(last'.op = "reload" /\ last'.changed \in FileSet) =>
       /\ last'.file = last'.changed
       /\ \A g \in FileSet \ {last'.changed} :
            /\ (g \in DOMAIN routes) = (g \in DOMAIN routes')
            /\ g \in DOMAIN routes =>
                 (routes'[g] = routes[g] /\ plugins'[g] = plugins[g])]_vars

\* Whether a request of the client to the plugin of file g would be admitted
\* by its limiter now.
wouldAdmit(store, g, t) ==
  checkRateLimit(store, Request("GET", plugins[g].path, <<>>, NoParams, NoParams,
                                "responds"),
                 plugins[g], t).allowed

\* C36: a request served by the plugin of file f, admitted or denied, leaves
\* unchanged whether a request to the plugin of any other file g (on a path
\* of its own) would be admitted, also when the two have the same name or
\* no name.
C36_IndependentBudgets ==
  [][Guarded(last') =>
       \A g \in DOMAIN plugins \ {last'.res.by} :
         (plugins[g].rateLimit # <<>> /\ plugins[g].path # last'.res.plugin.path) =>
           wouldAdmit(rateLimitStore', g, now) = wouldAdmit(rateLimitStore, g, now)]_vars

\* The same for the plugins whose names differ.
C36_IndependentBudgetsOtherName ==
  [][Guarded(last') =>
       \A g \in DOMAIN plugins \ {last'.res.by} :
         (plugins[g].rateLimit # <<>>
            /\ rateKey(ClientIp, plugins[g]) # rateKey(ClientIp, last'.res.plugin)) =>
           wouldAdmit(rateLimitStore', g, now) = wouldAdmit(rateLimitStore, g, now)]_vars

\* C37: with TOKEN not set or empty, no request to a plugin with
\* authentication passes authentication, whatever its Authorization header:
\* it is answered 401 or 403 and exec is not invoked.
C37_FailsClosedWithoutSecret ==
  (secret \in {<<>>, <<"">>} /\ Guarded(last) /\ last.res.plugin.authentication) =>
    /\ ~validateAuthentication(last.req).valid
    /\ last.res.status \in {401, 403}
    /\ ~last.res.execCalled

\* TOKEN is empty and the header is "Bearer " with an empty token.
C37_Witness ==
  /\ secret = <<"">>
  /\ Guarded(last) /\ last.res.plugin.authentication
  /\ last.req.authorization = <<"Bearer", "">>
  /\ last.res.status = 401

\* TOKEN is not set and the header carries the token "undefined".
C37_WitnessUnset ==
  /\ secret = <<>>
  /\ Guarded(last) /\ last.res.plugin.authentication
  /\ last.req.authorization = <<"Bearer", "undefined">>
  /\ last.res.status = 403

\* C38: every request the guard handler passed to exec gets a response in
\* the end, and none is without a response once exec has completed or its
\* timeout has expired.
C38_EveryRequestAnswered ==
  /\ \A i \in 1..MaxInFlight :
       [](Len(inflight) >= i => <>(Len(inflight) >= i /\ inflight[i].sent # <<>>))
  /\ [](\A i \in 1..Len(inflight) :
          (inflight[i].exec # "running" \/ inflight[i].timer = "fired")
            => inflight[i].sent # <<>>)

\* The same but for the requests whose exec fulfilled without sending
\* anything: a rejection of exec and a timeout with exec still running are
\* answered 500, an exec that sent is answered by exec.
C38_AnsweredUnlessExecEndsSilent ==
  /\ \A i \in 1..MaxInFlight :
       [](Len(inflight) >= i =>
            <>(Len(inflight) >= i
                 /\ (inflight[i].sent # <<>> \/ inflight[i].exec = "fulfilled")))
  /\ [](\A i \in 1..Len(inflight) :
          (inflight[i].exec = "rejected" \/ inflight[i].timer = "fired")
            => (inflight[i].sent # <<>> \/ inflight[i].exec = "fulfilled"))

====
